---- MODULE Spec2Model ----
(***************************************************************************)
(* The tenant-shared document / alert data model of the property           *)
(* monitoring system: the relational schema built by the SQL migrations    *)
(* (001 single document pipeline, 002 schema optimizations, 003 final      *)
(* optimizations), the storage-layer constraints they install, and the     *)
(* request handlers that run against that schema.                          *)
(***************************************************************************)
EXTENDS Integers, FiniteSets, Sequences, TLC

(***************************************************************************)
(* Bounds of the model.                                                    *)
(***************************************************************************)
MaxCompanies == 2
MaxMunicipalities == 2
MaxMeetings == 2
MaxHashes == 2
MaxDocumentId == 2
MaxAlertId == 2
MaxClients == 2

CompanyIds == 1..MaxCompanies
MunicipalityIds == 1..MaxMunicipalities
MeetingIds == 1..MaxMeetings
ContentHashes == 1..MaxHashes
DocumentIds == 1..MaxDocumentId
AlertIds == 1..MaxAlertId
Clients == 1..MaxClients

\* SQL NULL (ids are positive, SERIAL starts at 1; names and cities are
\* numbered from 1, city 0 being a city that is no municipality's name).
NULL == 0

(***************************************************************************)
(* State: one variable per table, the constraints in force (schema), the   *)
(* SERIAL sequences, and the requests in flight.                           *)
(***************************************************************************)
VARIABLES
    companies,              \* set of [id]
    municipalities,         \* set of [id, name]
    meetings,               \* set of [id, municipality_id]
    documents,              \* set of [id, meeting_id, content_hash, status]
    alerts,                 \* set of [id, company_id, document_id, review_status]
    properties,             \* set of [id, company_id, municipality_id, address, city,
                            \*         property_type]
    ingest_jobs,            \* set of [id, company_id, municipality, municipality_id]
    company_municipalities, \* set of [company_id, municipality_id]
    users,                  \* set of [id, company_id]
    audit_trails,           \* set of [id, company_id, document_id]
    schema,                 \* names of the constraints in force
    schema_migrations,      \* versions recorded as applied
    documents_id_seq,       \* last value of documents.id SERIAL
    alerts_id_seq,          \* last value of alerts.id SERIAL
    properties_id_seq,      \* last value of properties.id SERIAL
    sql_result,             \* outcome of the last DELETE statement
    ingest,                 \* per client: the ingest request in flight
    ingest_response,        \* the response to the last completed ingest request
    matcher,                \* the (company, document) pair the matcher is inserting
    api_response,           \* the response to the last tenant-scoped API request
    node_env,               \* NODE_ENV of the web build
    account,                \* the account argument of the last jwt callback
    token,                  \* per client: the NextAuth JWT
    request,                \* the last request that left the axios interceptor
    page                    \* the React state of the properties page and of its form

tables == <<companies, municipalities, meetings, documents, alerts, properties,
            ingest_jobs, company_municipalities, users, audit_trails>>
vars == <<companies, municipalities, meetings, documents, alerts, properties,
          ingest_jobs, company_municipalities, users, audit_trails, schema,
          schema_migrations, documents_id_seq, alerts_id_seq, properties_id_seq, sql_result, ingest,
          ingest_response, matcher, api_response, node_env, account, token, request,
          page>>

\* The state of the web tier: untouched by the pipeline and by migrations.
auth == <<node_env, account, token, request>>
web == <<api_response, auth, page>>

\* The database as one value, for the operators that compute a transaction.
DB == [companies |-> companies, municipalities |-> municipalities,
       meetings |-> meetings, documents |-> documents, alerts |-> alerts,
       properties |-> properties, ingest_jobs |-> ingest_jobs,
       company_municipalities |-> company_municipalities,
       users |-> users, audit_trails |-> audit_trails]

Commit(db) ==
    /\ companies' = db.companies
    /\ municipalities' = db.municipalities
    /\ meetings' = db.meetings
    /\ documents' = db.documents
    /\ alerts' = db.alerts
    /\ properties' = db.properties
    /\ ingest_jobs' = db.ingest_jobs
    /\ company_municipalities' = db.company_municipalities
    /\ users' = db.users
    /\ audit_trails' = db.audit_trails

Ids(rows) == {r.id : r \in rows}

(***************************************************************************)
(* The match payloads of an alert (property_matches, rule_matches): JSONB  *)
(* values, here SQL NULL, a JSON string or a JSON array of strings.  Texts *)
(* are sequences of one-character strings.                                 *)
(***************************************************************************)
\* The longest legacy payload text and the most entries of a payload array.
MaxTextLen == 3
MaxItems == 2

\* The sequences over S of length at most n.
SeqsUpTo(S, n) == UNION {[1..k -> S] : k \in 0..n}

NoMatches == [kind |-> "null", chars |-> <<>>, items |-> <<>>]
JsonString(chars) == [kind |-> "string", chars |-> chars, items |-> <<>>]
JsonArray(items) == [kind |-> "array", chars |-> <<>>, items |-> items]

RECURSIVE Join(_, _)
Join(items, sep) ==
    IF items = <<>> THEN <<>>
    ELSE IF Len(items) = 1 THEN items[1]
    ELSE items[1] \o sep \o Join(Tail(items), sep)

Quoted(chars) == <<"\"">> \o chars \o <<"\"">>

\* value::text, the text form of a JSONB value (escapes inside strings are
\* not drawn: only the brackets and the commas are read).
Text(v) ==
    IF v.kind = "array"
    THEN <<"[">> \o Join([i \in 1..Len(v.items) |-> Quoted(v.items[i])], <<",", " ">>)
                \o <<"]">>
    ELSE Quoted(v.chars)

\* text LIKE '[%]'
LikeBracketed(text) ==
    Len(text) >= 2 /\ text[1] = "[" /\ text[Len(text)] = "]"

RECURSIVE Split(_, _, _)
Split(text, sep, field) ==
    IF text = <<>> THEN <<field>>
    ELSE IF Head(text) = sep THEN <<field>> \o Split(Tail(text), sep, <<>>)
    ELSE Split(Tail(text), sep, Append(field, Head(text)))

\* string_to_array(text, sep): the fields between the separators; the empty
\* text has no field.
StringToArray_whole(text, sep) == <<text>>
StringToArray(text, sep) == IF text = <<>> THEN <<>> ELSE Split(text, sep, <<>>)

\* 003 step 2: CASE WHEN v IS NOT NULL AND v::text LIKE '[%]' THEN v::jsonb
\*                  WHEN v IS NOT NULL THEN to_jsonb(string_to_array(v::text, ','))
\*                  ELSE NULL END
NormalizeMatches(v) ==
    IF v.kind # "null" /\ LikeBracketed(Text(v)) THEN v
    ELSE IF v.kind # "null" THEN JsonArray(StringToArray(Text(v), ","))
    ELSE NoMatches

(***************************************************************************)
(* Constraints, as predicates over the rows of a database value.           *)
(***************************************************************************)

\* 002 step 1: UNIQUE (content_hash) on documents.
documents_content_hash_unique_dropped(db) == TRUE
documents_content_hash_unique_per_meeting(db) ==
    \A d1, d2 \in db.documents :
        (d1.content_hash = d2.content_hash /\ d1.meeting_id = d2.meeting_id)
            => d1.id = d2.id
documents_content_hash_unique(db) ==
    \A d1, d2 \in db.documents : d1.content_hash = d2.content_hash => d1.id = d2.id

\* 001: FOREIGN KEY (municipality_id) REFERENCES municipalities(id).
meetings_municipality_id_fkey(db) ==
    \A mt \in db.meetings : mt.municipality_id \in Ids(db.municipalities)

\* 001 / 002 step 9: FOREIGN KEY (meeting_id) REFERENCES meetings(id); NOT NULL.
documents_meeting_id_fkey_dropped(db) == TRUE
documents_meeting_id_fkey(db) ==
    \A d \in db.documents : d.meeting_id \in Ids(db.meetings)

\* 001: FOREIGN KEY (company_id) REFERENCES companies(id); company_id NOT NULL.
alerts_company_id_fkey(db) ==
    \A a \in db.alerts : a.company_id \in Ids(db.companies)

\* 001: FOREIGN KEY (document_id) REFERENCES documents(id); a NULL passes.
alerts_document_id_fkey_missing(db) == TRUE
alerts_document_id_fkey(db) ==
    \A a \in db.alerts : a.document_id = NULL \/ a.document_id \in Ids(db.documents)

\* 003 step 1: alerts.document_id SET NOT NULL.
alerts_document_id_not_null(db) ==
    \A a \in db.alerts : a.document_id # NULL

\* 002 step 8: CHECK (review_status IN ('pending', 'reviewed', 'resolved')).
ReviewStatuses == {"pending", "reviewed", "resolved"}
alerts_review_status_check_widened(db) == TRUE
alerts_review_status_check_pending_only(db) ==
    \A a \in db.alerts : a.review_status = "pending"
alerts_review_status_check(db) ==
    \A a \in db.alerts : a.review_status \in ReviewStatuses

\* 001: FOREIGN KEY (company_id) REFERENCES companies(id); company_id NOT NULL.
properties_company_id_fkey(db) ==
    \A p \in db.properties : p.company_id \in Ids(db.companies)

\* 001 step 4: municipality_id INT REFERENCES municipalities(id); a NULL passes.
properties_municipality_id_fkey_unchecked(db) == TRUE
properties_municipality_id_fkey(db) ==
    \A p \in db.properties :
        p.municipality_id = NULL \/ p.municipality_id \in Ids(db.municipalities)

\* 002 step 2: properties.municipality_id SET NOT NULL.
properties_municipality_id_not_null(db) ==
    \A p \in db.properties : p.municipality_id # NULL

\* 001 step 4: UNIQUE (company_id, address).
properties_company_address_unique_global(db) ==
    \A p1, p2 \in db.properties : p1.address = p2.address => p1.id = p2.id
properties_company_address_unique(db) ==
    \A p1, p2 \in db.properties :
        (p1.company_id = p2.company_id /\ p1.address = p2.address) => p1.id = p2.id

\* 001: FOREIGN KEY (company_id) REFERENCES companies(id); company_id NOT NULL.
ingest_jobs_company_id_fkey(db) ==
    \A j \in db.ingest_jobs : j.company_id \in Ids(db.companies)

\* 002 step 3: FOREIGN KEY (municipality_id) REFERENCES municipalities(id).
ingest_jobs_municipality_id_fkey(db) ==
    \A j \in db.ingest_jobs :
        j.municipality_id = NULL \/ j.municipality_id \in Ids(db.municipalities)

\* 003 step 3: ingest_jobs.municipality_id SET NOT NULL.
ingest_jobs_municipality_id_not_null(db) ==
    \A j \in db.ingest_jobs : j.municipality_id # NULL

\* 001: FOREIGN KEY (company_id) REFERENCES companies(id); a NULL passes.
users_company_id_fkey(db) ==
    \A u \in db.users : u.company_id = NULL \/ u.company_id \in Ids(db.companies)

\* 001: FOREIGN KEY (company_id) REFERENCES companies(id); a NULL passes.
audit_trails_company_id_fkey(db) ==
    \A t \in db.audit_trails :
        t.company_id = NULL \/ t.company_id \in Ids(db.companies)

\* 001 step 4: both foreign keys of company_municipalities.
company_municipalities_fkeys(db) ==
    \A s \in db.company_municipalities :
        /\ s.company_id \in Ids(db.companies)
        /\ s.municipality_id \in Ids(db.municipalities)

\* The constraints migration 001 leaves in force.
Schema001 == {"meetings_municipality_id_fkey", "documents_meeting_id_fkey",
              "alerts_company_id_fkey", "alerts_document_id_fkey",
              "properties_company_id_fkey", "properties_municipality_id_fkey",
              "properties_company_address_unique", "ingest_jobs_company_id_fkey",
              "users_company_id_fkey", "audit_trails_company_id_fkey",
              "company_municipalities_fkeys"}
\* The constraints migration 002 adds.
Schema002 == {"documents_content_hash_unique", "properties_municipality_id_not_null",
              "ingest_jobs_municipality_id_fkey", "alerts_review_status_check"}
\* The constraints migration 003 adds.
Schema003 == {"alerts_document_id_not_null", "ingest_jobs_municipality_id_not_null"}

\* Does the database value satisfy the constraint of that name?
Holds(name, db) ==
    CASE name = "documents_content_hash_unique" -> documents_content_hash_unique(db)
      [] name = "meetings_municipality_id_fkey" -> meetings_municipality_id_fkey(db)
      [] name = "documents_meeting_id_fkey" -> documents_meeting_id_fkey(db)
      [] name = "alerts_company_id_fkey" -> alerts_company_id_fkey(db)
      [] name = "alerts_document_id_fkey" -> alerts_document_id_fkey(db)
      [] name = "alerts_document_id_not_null" -> alerts_document_id_not_null(db)
      [] name = "alerts_review_status_check" -> alerts_review_status_check(db)
      [] name = "properties_company_id_fkey" -> properties_company_id_fkey(db)
      [] name = "properties_municipality_id_fkey" -> properties_municipality_id_fkey(db)
      [] name = "properties_municipality_id_not_null" ->
             properties_municipality_id_not_null(db)
      [] name = "properties_company_address_unique" ->
             properties_company_address_unique(db)
      [] name = "ingest_jobs_company_id_fkey" -> ingest_jobs_company_id_fkey(db)
      [] name = "ingest_jobs_municipality_id_fkey" -> ingest_jobs_municipality_id_fkey(db)
      [] name = "ingest_jobs_municipality_id_not_null" ->
             ingest_jobs_municipality_id_not_null(db)
      [] name = "users_company_id_fkey" -> users_company_id_fkey(db)
      [] name = "audit_trails_company_id_fkey" -> audit_trails_company_id_fkey(db)
      [] name = "company_municipalities_fkeys" -> company_municipalities_fkeys(db)

\* A statement's result is accepted iff every constraint in force holds of it.
Accepted(sch, db) == \A name \in sch : Holds(name, db)

(***************************************************************************)
(* Storage-layer statements.  Each returns [error, db]: the database after *)
(* the statement, or the error that rejected it (db unchanged).            *)
(***************************************************************************)
Result(err, db) == [error |-> err, db |-> db]

\* First constraint of the list that is in force and violated, "none" if none.
RECURSIVE FirstViolated(_, _, _)
FirstViolated(names, sch, db) ==
    IF names = <<>> THEN "none"
    ELSE IF Head(names) \in sch /\ ~Holds(Head(names), db) THEN Head(names)
    ELSE FirstViolated(Tail(names), sch, db)

\* The order in which a statement meets the constraints: NOT NULL and CHECK
\* before the row is stored, unique indexes when it is stored, foreign keys
\* (with NO ACTION on delete) when the statement ends.
ConstraintOrder_fkeys_first ==
    <<"meetings_municipality_id_fkey", "documents_meeting_id_fkey",
      "alerts_company_id_fkey", "alerts_document_id_fkey",
      "properties_company_id_fkey", "properties_municipality_id_fkey",
      "ingest_jobs_company_id_fkey", "ingest_jobs_municipality_id_fkey",
      "users_company_id_fkey", "audit_trails_company_id_fkey",
      "company_municipalities_fkeys",
      "alerts_document_id_not_null", "properties_municipality_id_not_null",
      "ingest_jobs_municipality_id_not_null", "alerts_review_status_check",
      "documents_content_hash_unique", "properties_company_address_unique">>
ConstraintOrder ==
    <<"alerts_document_id_not_null", "properties_municipality_id_not_null",
      "ingest_jobs_municipality_id_not_null", "alerts_review_status_check",
      "documents_content_hash_unique", "properties_company_address_unique",
      "meetings_municipality_id_fkey", "documents_meeting_id_fkey",
      "alerts_company_id_fkey", "alerts_document_id_fkey",
      "properties_company_id_fkey", "properties_municipality_id_fkey",
      "ingest_jobs_company_id_fkey", "ingest_jobs_municipality_id_fkey",
      "users_company_id_fkey", "audit_trails_company_id_fkey",
      "company_municipalities_fkeys">>

\* A statement that turns db into new: committed unless a constraint in force
\* rejects the result.
Statement(sch, db, new) ==
    LET bad == FirstViolated(ConstraintOrder, sch, new)
    IN  IF bad = "none" THEN Result("none", new) ELSE Result(bad, db)

\* INSERT INTO documents.
InsertDocument(sch, db, row) ==
    Statement(sch, db, [db EXCEPT !.documents = @ \cup {row}])

\* INSERT INTO alerts.
InsertAlert(sch, db, row) ==
    Statement(sch, db, [db EXCEPT !.alerts = @ \cup {row}])

\* DELETE FROM documents WHERE id = d: alerts_document_id_fkey ON DELETE CASCADE.
DeleteDocumentRows(db, ds) ==
    [db EXCEPT !.documents = {d \in @ : d.id \notin ds},
               !.alerts = {a \in @ : a.document_id \notin ds}]

\* DELETE FROM meetings WHERE id = mt: documents_meeting_id_fkey ON DELETE CASCADE.
DeleteMeetingRows(db, mts) ==
    LET ds == {d.id : d \in {x \in db.documents : x.meeting_id \in mts}}
    IN  [DeleteDocumentRows(db, ds) EXCEPT !.meetings = {m \in @ : m.id \notin mts}]

\* As if the foreign keys of properties and ingest_jobs were ON DELETE CASCADE.
DeleteMunicipalityRows_cascade_all(db, ms) ==
    LET mts == {mt.id : mt \in {x \in db.meetings : x.municipality_id \in ms}}
    IN  [DeleteMeetingRows(db, mts) EXCEPT
            !.municipalities = {m \in @ : m.id \notin ms},
            !.company_municipalities = {s \in @ : s.municipality_id \notin ms},
            !.properties = {x \in @ : x.municipality_id \notin ms},
            !.ingest_jobs = {j \in @ : j.municipality_id \notin ms}]

\* DELETE FROM municipalities WHERE id = m: meetings_municipality_id_fkey and
\* company_municipalities_municipality_id_fkey ON DELETE CASCADE; the foreign
\* keys of properties and ingest_jobs have no ON DELETE action.
DeleteMunicipalityRows(db, ms) ==
    LET mts == {mt.id : mt \in {x \in db.meetings : x.municipality_id \in ms}}
    IN  [DeleteMeetingRows(db, mts) EXCEPT
            !.municipalities = {m \in @ : m.id \notin ms},
            !.company_municipalities = {s \in @ : s.municipality_id \notin ms}]

\* DELETE FROM companies WHERE id = c: every foreign key to companies is
\* ON DELETE CASCADE.
DeleteCompanyRows(db, cs) ==
    [db EXCEPT !.companies = {c \in @ : c.id \notin cs},
               !.alerts = {a \in @ : a.company_id \notin cs},
               !.properties = {x \in @ : x.company_id \notin cs},
               !.ingest_jobs = {j \in @ : j.company_id \notin cs},
               !.users = {u \in @ : u.company_id \notin cs},
               !.audit_trails = {t \in @ : t.company_id \notin cs},
               !.company_municipalities = {x \in @ : x.company_id \notin cs}]

(***************************************************************************)
(* Document ingestion (POST /api/ingest).  The handler looks the hash up   *)
(* and, when it is new, inserts the row; a rejection by the unique         *)
(* constraint is caught and answered as "already exists".                  *)
(***************************************************************************)
IdleIngest == [pc |-> "idle", meeting_id |-> NULL, content_hash |-> NULL]

NoResponse == [status |-> "none", content_hash |-> NULL, id |-> NULL, conflict |-> FALSE]

IngestResponse(status, h, id, conflict) ==
    [status |-> status, content_hash |-> h, id |-> id, conflict |-> conflict]

DocumentByHash(rows, h) == CHOOSE d \in rows : d.content_hash = h

Inserting == {c \in Clients : ingest[c].pc = "insert"}

IngestLookup(c, m, h) ==
    /\ ingest[c].pc = "idle"
    /\ IF \E d \in documents : d.content_hash = h
       THEN /\ ingest_response' =
                  IngestResponse("exists", h, DocumentByHash(documents, h).id, FALSE)
            /\ UNCHANGED ingest
       ELSE /\ documents_id_seq + Cardinality(Inserting) < MaxDocumentId
            /\ ingest' = [ingest EXCEPT ![c] =
                              [pc |-> "insert", meeting_id |-> m, content_hash |-> h]]
            /\ UNCHANGED ingest_response
    /\ UNCHANGED <<web, tables, schema, schema_migrations, documents_id_seq,
                   alerts_id_seq, properties_id_seq, sql_result, matcher>>

IngestInsert(c) ==
    /\ ingest[c].pc = "insert"
    /\ LET id == documents_id_seq + 1
           h == ingest[c].content_hash
           row == [id |-> id, meeting_id |-> ingest[c].meeting_id,
                   content_hash |-> h, status |-> "pending"]
           res == InsertDocument(schema, DB, row)
       IN  /\ documents_id_seq' = id
           /\ Commit(res.db)
           /\ ingest_response' =
                 CASE res.error = "none" -> IngestResponse("created", h, id, FALSE)
                   [] res.error = "documents_content_hash_unique" ->
                        IngestResponse("exists", h, DocumentByHash(documents, h).id, TRUE)
                   [] OTHER -> IngestResponse("missing_parent", h, NULL, FALSE)
    /\ ingest' = [ingest EXCEPT ![c] = IdleIngest]
    /\ UNCHANGED <<web, schema, schema_migrations, alerts_id_seq, properties_id_seq, sql_result, matcher>>

\* The analysis collaborator marks a pending document processed.
ProcessDocument(d) ==
    /\ d \in documents
    /\ d.status = "pending"
    /\ documents' = (documents \ {d}) \cup {[d EXCEPT !.status = "processed"]}
    /\ UNCHANGED <<web, companies, municipalities, meetings, alerts, properties, ingest_jobs,
                   company_municipalities, users, audit_trails, schema,
                   schema_migrations, documents_id_seq,
                   alerts_id_seq, properties_id_seq, sql_result, ingest, ingest_response, matcher>>

NoStatement == [statement |-> "none", id |-> NULL, error |-> "none", alerts_deleted |-> 0]

\* Run a DELETE statement and report its outcome.
Delete(name, id, new) ==
    LET res == Statement(schema, DB, new)
    IN  /\ Commit(res.db)
        /\ sql_result' = [statement |-> name, id |-> id, error |-> res.error,
                          alerts_deleted |-> Cardinality(alerts \ res.db.alerts)]

DeleteDocument(id) ==
    /\ id \in Ids(documents)
    /\ Delete("delete_document", id, DeleteDocumentRows(DB, {id}))
    /\ UNCHANGED <<web, schema, schema_migrations, documents_id_seq, alerts_id_seq, properties_id_seq,
                   ingest, ingest_response, matcher>>

DeleteMeeting(id) ==
    /\ id \in Ids(meetings)
    /\ Delete("delete_meeting", id, DeleteMeetingRows(DB, {id}))
    /\ UNCHANGED <<web, schema, schema_migrations, documents_id_seq, alerts_id_seq, properties_id_seq,
                   ingest, ingest_response, matcher>>

DeleteMunicipality(id) ==
    /\ id \in Ids(municipalities)
    /\ Delete("delete_municipality", id, DeleteMunicipalityRows(DB, {id}))
    /\ UNCHANGED <<web, schema, schema_migrations, documents_id_seq, alerts_id_seq, properties_id_seq,
                   ingest, ingest_response, matcher>>

DeleteCompany(id) ==
    /\ id \in Ids(companies)
    /\ Delete("delete_company", id, DeleteCompanyRows(DB, {id}))
    /\ UNCHANGED <<web, schema, schema_migrations, documents_id_seq, alerts_id_seq, properties_id_seq,
                   ingest, ingest_response, matcher>>

(***************************************************************************)
(* The matcher: for a processed document and a company subscribed to the   *)
(* document's municipality it creates the alert of the pair, unless the    *)
(* pair is already alerted.  The check and the insert are two statements.  *)
(***************************************************************************)
MunicipalityOf(d) ==
    (CHOOSE mt \in meetings : mt.id = d.meeting_id).municipality_id

MatcherCheck(co, d) ==
    /\ matcher = <<>>
    /\ d \in documents
    /\ d.status = "processed"
    /\ [company_id |-> co, municipality_id |-> MunicipalityOf(d)]
          \in company_municipalities
    /\ ~\E a \in alerts : a.company_id = co /\ a.document_id = d.id
    /\ alerts_id_seq < MaxAlertId
    /\ matcher' = <<co, d.id>>
    /\ UNCHANGED <<web, tables, schema, schema_migrations, documents_id_seq,
                   alerts_id_seq, properties_id_seq, sql_result, ingest, ingest_response>>

MatcherInsert ==
    /\ matcher # <<>>
    /\ LET id == alerts_id_seq + 1
           row == [id |-> id, company_id |-> matcher[1],
                   document_id |-> matcher[2], review_status |-> "pending",
                   property_matches |-> NoMatches, rule_matches |-> NoMatches]
       IN  /\ alerts_id_seq' = id
           /\ Commit(InsertAlert(schema, DB, row).db)
    /\ matcher' = <<>>
    /\ UNCHANGED <<web, schema, schema_migrations, documents_id_seq,
                   properties_id_seq, sql_result, ingest, ingest_response>>

\* The fully migrated schema.
SchemaMigrated == Schema001 \cup Schema002 \cup Schema003
VersionsMigrated == {"002_schema_optimizations", "003_final_optimizations"}

(***************************************************************************)
(* The tenant-scoped API (/api/properties, /api/alerts) that the client of *)
(* web/lib/api.ts calls.  A request is authenticated as one company and    *)
(* names an entity by its numeric id in the path; no request body carries  *)
(* a company_id.                                                           *)
(***************************************************************************)
MaxAddresses == 2
MaxProperties == 1
MaxAlerts == 1
Addresses == 1..MaxAddresses

\* The ids a caller may put in a path: the ids ever issued and one more.
PropertyPathIds == 1..(MaxProperties + 1)
\* The values of properties.id SERIAL the creations may reach.
PropertyIds == 1..(MaxProperties + 2)
AlertPathIds == 1..(MaxAlerts + 1)

\* The statuses a caller may submit: the stored vocabulary and the alert
\* card's own ("reviewing", "resolved", "false_positive").
SubmittedStatuses == ReviewStatuses \cup {"reviewing", "false_positive"}

\* A request body: the fields the operation reads, the others absent.
NoBody ==
    [address |-> NULL, status |-> "", municipality_id |-> NULL, property_type |-> "",
     municipalities |-> {}]
AddressBody(address) == [NoBody EXCEPT !.address = address]
StatusBody(status) == [NoBody EXCEPT !.status = status]
PropertyBody(address, municipality_id, property_type) ==
    [NoBody EXCEPT !.address = address, !.municipality_id = municipality_id,
                   !.property_type = property_type]

MunicipalitiesBody(ms) == [NoBody EXCEPT !.municipalities = ms]

\* The property types a caller may submit: one of the catalogue, one not.
SubmittedPropertyTypes == {"Residential", "Castle"}

NoApiResponse ==
    [op |-> "none", caller |-> NULL, id |-> NULL, body |-> NoBody,
     status |-> "none", rows |-> {}]

\* The tenant gate: the entity of that id, only if it is the caller's.
Gate_unscoped(rows, company_id, id) == {r \in rows : r.id = id}
Gate(rows, company_id, id) ==
    {r \in rows : r.id = id /\ r.company_id = company_id}

\* What the gate signals for an id: another tenant's row is "not found".
GateStatus_forbidden(rows, company_id, id) ==
    IF Gate(rows, company_id, id) # {} THEN "ok"
    ELSE IF \E r \in rows : r.id = id THEN "forbidden" ELSE "not_found"
GateStatus(rows, company_id, id) ==
    IF Gate(rows, company_id, id) # {} THEN "ok" ELSE "not_found"

\* The tenant filter of a list operation.
Scope(rows, company_id) == {r \in rows : r.company_id = company_id}

Answer(status, rows, db) == [status |-> status, rows |-> rows, db |-> db]

\* A write behind the gate: refused as not found, rejected by a constraint
\* (validation error, nothing stored), or committed.
GatedWrite(sch, db, status, new, rows) ==
    LET res == Statement(sch, db, new)
    IN  IF status # "ok" THEN Answer(status, {}, db)
        ELSE IF res.error # "none" THEN Answer("validation_error", {}, db)
        ELSE Answer("ok", rows, res.db)

\* GET /api/properties/
properties_list(db, co) == Answer("ok", Scope(db.properties, co), db)

\* GET /api/properties/{id}
properties_get(db, co, id) ==
    Answer(GateStatus(db.properties, co, id), Gate(db.properties, co, id), db)

\* PUT /api/properties/{id}
properties_update(sch, db, co, id, address) ==
    LET found == Gate(db.properties, co, id)
        rows == {[r EXCEPT !.address = address] : r \in found}
    IN  GatedWrite(sch, db, GateStatus(db.properties, co, id),
                   [db EXCEPT !.properties = (@ \ found) \cup rows], rows)

\* DELETE /api/properties/{id}
properties_delete(sch, db, co, id) ==
    LET found == Gate(db.properties, co, id)
    IN  GatedWrite(sch, db, GateStatus(db.properties, co, id),
                   [db EXCEPT !.properties = @ \ found], {})

\* The write path's subscription check: the company monitors the municipality.
Subscribed_unchecked(db, co, m) == TRUE
Subscribed(db, co, m) ==
    [company_id |-> co, municipality_id |-> m] \in db.company_municipalities

\* POST /api/properties: the row of id (the next value of the sequence) is
\* inserted for the caller, in a municipality the caller subscribes to.
properties_create(sch, db, co, id, body) ==
    LET row == [id |-> id, company_id |-> co,
                municipality_id |-> body.municipality_id, address |-> body.address,
                city |-> NULL, property_type |-> body.property_type]
        res == Statement(sch, db, [db EXCEPT !.properties = @ \cup {row}])
    IN  IF ~Subscribed(db, co, body.municipality_id)
        THEN Answer("validation_error", {}, db)
        ELSE IF res.error # "none" THEN Answer("validation_error", {}, db)
        ELSE Answer("ok", {row}, res.db)

\* GET /api/alerts/
alerts_list(db, co) == Answer("ok", Scope(db.alerts, co), db)

\* GET /api/alerts/{id}
alerts_get(db, co, id) ==
    Answer(GateStatus(db.alerts, co, id), Gate(db.alerts, co, id), db)

\* PATCH /api/alerts/{id}/status
alerts_updateStatus(sch, db, co, id, status) ==
    LET found == Gate(db.alerts, co, id)
        rows == {[r EXCEPT !.review_status = status] : r \in found}
    IN  GatedWrite(sch, db, GateStatus(db.alerts, co, id),
                   [db EXCEPT !.alerts = (@ \ found) \cup rows], rows)

\* The document operations of the client: details, content, download, analysis.
DocumentReads ==
    {"documents.get", "documents.getContent", "documents.download",
     "documents.getAnalysis"}

DocumentPathIds == 1..(MaxDocumentId + 1)

\* The gate of a global document: the document of that id, only if the caller
\* holds an alert on it.
DocumentGate_global(db, co, id) == {d \in db.documents : d.id = id}
DocumentGate(db, co, id) ==
    {d \in db.documents :
        /\ d.id = id
        /\ \E a \in db.alerts : a.company_id = co /\ a.document_id = id}

\* GET /api/documents/{id}, /content, /download, /analysis
documents_read(db, co, id) ==
    IF DocumentGate(db, co, id) # {}
    THEN Answer("ok", DocumentGate(db, co, id), db)
    ELSE Answer("not_found", {}, db)

\* DELETE FROM company_municipalities: no table references its rows.
DeleteSubscriptionRows_cascade(db, co, ms) ==
    [db EXCEPT
        !.company_municipalities =
            {x \in @ : ~(x.company_id = co /\ x.municipality_id \in ms)},
        !.properties = {x \in @ : ~(x.company_id = co /\ x.municipality_id \in ms)},
        !.alerts = {a \in @ : ~(a.company_id = co /\ \E d \in db.documents, mt \in db.meetings :
                                   /\ d.id = a.document_id /\ mt.id = d.meeting_id
                                   /\ mt.municipality_id \in ms)}]
DeleteSubscriptionRows(db, co, ms) ==
    [db EXCEPT !.company_municipalities =
        {x \in @ : ~(x.company_id = co /\ x.municipality_id \in ms)}]

\* PUT /api/companies/municipalities: the caller's subscriptions become ms.
companies_updateMunicipalities(sch, db, co, ms) ==
    LET old == {x.municipality_id : x \in Scope(db.company_municipalities, co)}
        kept == DeleteSubscriptionRows(db, co, old \ ms)
        new == [kept EXCEPT !.company_municipalities =
                   @ \cup {[company_id |-> co, municipality_id |-> m] : m \in ms}]
        res == Statement(sch, db, new)
    IN  IF res.error # "none" THEN Answer("validation_error", {}, db)
        ELSE Answer("ok", Scope(res.db.company_municipalities, co), res.db)

\* The handler of a request, by operation.
Handle(op, sch, db, co, id, body) ==
    CASE op = "properties.list" -> properties_list(db, co)
      [] op = "properties.get" -> properties_get(db, co, id)
      [] op = "properties.update" -> properties_update(sch, db, co, id, body.address)
      [] op = "properties.delete" -> properties_delete(sch, db, co, id)
      [] op = "alerts.list" -> alerts_list(db, co)
      [] op = "alerts.get" -> alerts_get(db, co, id)
      [] op = "alerts.updateStatus" -> alerts_updateStatus(sch, db, co, id, body.status)
      [] op \in DocumentReads -> documents_read(db, co, id)
      [] op = "companies.updateMunicipalities" ->
            companies_updateMunicipalities(sch, db, co, body.municipalities)

\* Serve one request authenticated as company co.
ApiRequest(op, co, id, body) ==
    LET ans == Handle(op, schema, DB, co, id, body)
    IN  /\ Commit(ans.db)
        /\ api_response' = [op |-> op, caller |-> co, id |-> id, body |-> body,
                            status |-> ans.status, rows |-> ans.rows]
        /\ UNCHANGED <<auth, page, schema, schema_migrations, documents_id_seq,
                       alerts_id_seq, properties_id_seq, sql_result, ingest, ingest_response, matcher>>

\* apiClient.properties.create: the sequence advances when the INSERT runs,
\* whether or not a constraint rejects the row.
PropertiesCreate(co, body) ==
    LET id == properties_id_seq + 1
        ans == properties_create(schema, DB, co, id, body)
    IN  /\ id \in PropertyIds
        /\ Commit(ans.db)
        /\ properties_id_seq' =
              IF Subscribed(DB, co, body.municipality_id) THEN id ELSE properties_id_seq
        /\ api_response' = [op |-> "properties.create", caller |-> co, id |-> NULL,
                            body |-> body, status |-> ans.status, rows |-> ans.rows]
        /\ UNCHANGED <<auth, page, schema, schema_migrations, documents_id_seq,
                       alerts_id_seq, sql_result, ingest, ingest_response, matcher>>

PropertiesList(co) == ApiRequest("properties.list", co, NULL, NoBody)
PropertiesGet(co, id) == ApiRequest("properties.get", co, id, NoBody)
PropertiesUpdate(co, id, address) ==
    ApiRequest("properties.update", co, id, AddressBody(address))
PropertiesDelete(co, id) == ApiRequest("properties.delete", co, id, NoBody)
AlertsList(co) == ApiRequest("alerts.list", co, NULL, NoBody)
AlertsGet(co, id) == ApiRequest("alerts.get", co, id, NoBody)
AlertsUpdateStatus(co, id, status) ==
    ApiRequest("alerts.updateStatus", co, id, StatusBody(status))
DocumentsRead(op, co, id) == ApiRequest(op, co, id, NoBody)
CompaniesUpdateMunicipalities(co, ms) ==
    ApiRequest("companies.updateMunicipalities", co, NULL, MunicipalitiesBody(ms))

(***************************************************************************)
(* Identity in the web tier: the NextAuth callbacks that build the JWT and *)
(* the session of the browser at sign-in, and the axios interceptor that   *)
(* puts the Authorization header on every API request.                     *)
(***************************************************************************)
Roles == {"admin", "analyst"}

\* session callback: the company_id of a session whose token has none.
default == -1

\* The id_token of the provider's answer: none, one whose payload does not
\* decode, or a JWT with the custom claims (plain and namespaced, NULL or ""
\* when the claim is absent).
Claims(kind, company_id, ns_company_id, role, ns_role) ==
    [kind |-> kind, company_id |-> company_id, ns_company_id |-> ns_company_id,
     role |-> role, ns_role |-> ns_role]
NoIdToken == Claims("none", NULL, NULL, "", "")
UndecodableIdToken == Claims("undecodable", NULL, NULL, "", "")
IdTokens ==
    {NoIdToken, UndecodableIdToken} \cup
    {Claims("jwt", co, nco, r, nr) :
        co \in CompanyIds \cup {NULL}, nco \in CompanyIds \cup {NULL},
        r \in Roles \cup {""}, nr \in Roles \cup {""}}

NoAccount == [access_token |-> NULL, id_token |-> NoIdToken]
NoToken ==
    [sub |-> NULL, accessToken |-> NULL, idToken |-> NoIdToken,
     company_id |-> NULL, role |-> ""]
NoRequest == [sender |-> NULL, authorization |-> "none", access_token |-> NULL]

\* JavaScript a || b, on ids (falsy: absent) and on text (falsy: absent, "").
OrId(a, b) == IF a # NULL THEN a ELSE b
OrText(a, b) == IF a # "" THEN a ELSE b

\* callbacks.jwt: at sign-in (account is set) the claims are read from the
\* decoded payload of account.id_token, whose signature is not looked at; on
\* every later call account is undefined and the token is returned as it is.
jwt_unguarded(t, acc) ==
    LET t1 == [t EXCEPT !.accessToken = acc.access_token, !.idToken = acc.id_token]
        claims == acc.id_token
    IN  IF claims.kind = "jwt"
        THEN [t1 EXCEPT !.company_id = OrId(claims.company_id, claims.ns_company_id),
                        !.role = OrText(OrText(claims.role, claims.ns_role), "analyst")]
        ELSE t1
jwt(t, acc) ==
    LET t1 == [t EXCEPT !.accessToken = acc.access_token, !.idToken = acc.id_token]
        claims == acc.id_token
    IN  IF acc = NoAccount THEN t
        ELSE IF claims.kind = "jwt"
        THEN [t1 EXCEPT !.company_id = OrId(claims.company_id, claims.ns_company_id),
                        !.role = OrText(OrText(claims.role, claims.ns_role), "analyst")]
        ELSE t1

\* callbacks.session
session(t) ==
    [accessToken |-> t.accessToken,
     user |-> [id |-> t.sub, company_id |-> OrId(t.company_id, default),
               role |-> OrText(t.role, "analyst")]]

\* signIn("auth0"): the provider answers with the tokens of user u.
SignIn(u, id_token) ==
    /\ token = NoToken
    /\ account' = [access_token |-> u, id_token |-> id_token]
    /\ token' = jwt([NoToken EXCEPT !.sub = u], account')
    /\ UNCHANGED <<tables, schema, schema_migrations, documents_id_seq, alerts_id_seq, properties_id_seq,
                   sql_result, ingest, ingest_response, matcher, api_response,
                   node_env, request, page>>

\* A later read of the session: callbacks.jwt runs on the stored token with
\* no account.
Refresh ==
    /\ token # NoToken
    /\ account' = NoAccount
    /\ token' = jwt(token, account')
    /\ UNCHANGED <<tables, schema, schema_migrations, documents_id_seq, alerts_id_seq, properties_id_seq,
                   sql_result, ingest, ingest_response, matcher, api_response,
                   node_env, request, page>>

\* signOut()
SignOut ==
    /\ token # NoToken
    /\ account' = NoAccount
    /\ token' = NoToken
    /\ UNCHANGED <<tables, schema, schema_migrations, documents_id_seq, alerts_id_seq, properties_id_seq,
                   sql_result, ingest, ingest_response, matcher, api_response,
                   node_env, request, page>>

\* api.interceptors.request: the Authorization header of an outgoing request.
Intercept ==
    /\ request' =
          IF node_env = "development"
          THEN [sender |-> token.sub, authorization |-> "Bearer test-token",
                access_token |-> NULL]
          ELSE IF token # NoToken /\ session(token).accessToken # NULL
          THEN [sender |-> token.sub, authorization |-> "Bearer accessToken",
                access_token |-> session(token).accessToken]
          ELSE [NoRequest EXCEPT !.sender = token.sub]
    /\ UNCHANGED <<tables, schema, schema_migrations, documents_id_seq, alerts_id_seq, properties_id_seq,
                   sql_result, ingest, ingest_response, matcher, api_response,
                   node_env, account, token, page>>

(***************************************************************************)
(* The properties page.  PropertiesPage holds showAddForm, each            *)
(* PropertyCard holds isEditing, a PropertyForm holds formData; isAdmin is  *)
(* read from the session at every render.  The session cookie is shared by *)
(* the tabs of the browser, so a sign-in or sign-out in another tab reaches *)
(* a mounted page through useSession.                                      *)
(***************************************************************************)
\* The property a PropertyForm is mounted with: none (no form), new (the add
\* form, no property) or existing with its aliases.
NoProperty == [kind |-> "none", aliases |-> <<>>]
NewProperty == [kind |-> "new", aliases |-> <<>>]
ExistingProperty(aliases) == [kind |-> "existing", aliases |-> aliases]

\* The last write request the page sent, with the role of the session then.
NoMutation == [op |-> "none", id |-> NULL, role |-> "", aliases |-> <<>>]

NoPage ==
    [showAddForm |-> FALSE, isEditing |-> {}, confirmed |-> FALSE,
     property |-> NoProperty, formData |-> [aliases |-> <<>>], mutation |-> NoMutation]

\* session?.user?.role === "admin"
isAdmin == token # NoToken /\ session(token).user.role = "admin"
SessionRole == IF token = NoToken THEN "" ELSE session(token).user.role

Whitespace == {" "}

\* String.prototype.trim
RECURSIVE TrimStart(_)
TrimStart(text) ==
    IF text # <<>> /\ Head(text) \in Whitespace THEN TrimStart(Tail(text)) ELSE text
RECURSIVE TrimEnd(_)
TrimEnd(text) ==
    IF text # <<>> /\ text[Len(text)] \in Whitespace
    THEN TrimEnd(SubSeq(text, 1, Len(text) - 1)) ELSE text
trim_start_only(text) == TrimStart(text)
trim(text) == TrimEnd(TrimStart(text))

\* useState: aliases: property?.aliases?.join(", ") || ""
InitialFormData(property) == [aliases |-> Join(property.aliases, <<",", " ">>)]

\* handleSubmit: formData.aliases.split(",").map(a => a.trim()).filter(a => a)
handleSubmit(formData) ==
    SelectSeq([i \in 1..Len(Split(formData.aliases, ",", <<>>)) |->
                  trim(Split(formData.aliases, ",", <<>>)[i])],
              LAMBDA a : a # <<>>)

Mutation(op, id, aliases) ==
    [op |-> op, id |-> id, role |-> SessionRole, aliases |-> aliases]

PageOnly ==
    UNCHANGED <<tables, schema, schema_migrations, documents_id_seq, alerts_id_seq,
                properties_id_seq, sql_result, ingest, ingest_response, matcher,
                api_response, auth>>

\* "Add Property" and "Add Your First Property": rendered when isAdmin.
SetShowAddForm ==
    /\ isAdmin
    /\ page' = [page EXCEPT !.showAddForm = TRUE]
    /\ PageOnly

\* The add form's onCancel.
CancelAddForm ==
    /\ page.showAddForm
    /\ page' = [page EXCEPT !.showAddForm = FALSE]
    /\ PageOnly

\* The add form's onSubmit: createProperty.mutate(data); on success the form
\* is closed.
CreateProperty(ok) ==
    /\ page.showAddForm
    /\ page' = [page EXCEPT
          !.mutation = Mutation("properties.create", NULL,
                                handleSubmit(InitialFormData(NewProperty))),
          !.showAddForm = ~ok]
    /\ PageOnly

\* The Edit button of a card: rendered when isAdmin and the card is not in
\* edit mode.
SetIsEditing(p) ==
    /\ isAdmin
    /\ p \notin page.isEditing
    /\ page' = [page EXCEPT !.isEditing = @ \cup {p}]
    /\ PageOnly

\* The edit form's onCancel.
CancelEdit(p) ==
    /\ p \in page.isEditing
    /\ page' = [page EXCEPT !.isEditing = @ \ {p}]
    /\ PageOnly

\* The edit form's onSubmit: updateProperty.mutate(data); on success the card
\* leaves edit mode.
UpdateProperty(p, ok) ==
    /\ p \in page.isEditing
    /\ page' = [page EXCEPT
          !.mutation = Mutation("properties.update", p,
                                handleSubmit(InitialFormData(ExistingProperty(<<>>)))),
          !.isEditing = IF ok THEN @ \ {p} ELSE @]
    /\ PageOnly

\* The Delete button of a card: confirm(...), then deleteProperty.mutate().
DeleteProperty_unconfirmed(p, answer) ==
    /\ isAdmin
    /\ p \notin page.isEditing
    /\ page' = [page EXCEPT !.confirmed = answer,
                            !.mutation = Mutation("properties.delete", p, <<>>)]
    /\ PageOnly
DeleteProperty(p, answer) ==
    /\ isAdmin
    /\ p \notin page.isEditing
    /\ page' = [page EXCEPT !.confirmed = answer,
                            !.mutation = IF answer
                                         THEN Mutation("properties.delete", p, <<>>)
                                         ELSE @]
    /\ PageOnly

InitWeb ==
    /\ api_response = NoApiResponse
    /\ node_env = "production"
    /\ account = NoAccount
    /\ token = NoToken
    /\ request = NoRequest
    /\ page = NoPage

InitIngest ==
    /\ companies = {[id |-> c] : c \in CompanyIds}
    /\ municipalities = {[id |-> m, name |-> m] : m \in MunicipalityIds}
    /\ meetings = {[id |-> m, municipality_id |-> 1] : m \in MeetingIds}
    /\ documents = {}
    /\ alerts = {}
    /\ properties = {}
    /\ ingest_jobs = {}
    /\ company_municipalities = {}
    /\ users = {}
    /\ audit_trails = {}
    /\ schema = SchemaMigrated
    /\ schema_migrations = VersionsMigrated
    /\ documents_id_seq = 0
    /\ alerts_id_seq = 0
    /\ properties_id_seq = Cardinality(properties)
    /\ sql_result = NoStatement
    /\ ingest = [c \in Clients |-> IdleIngest]
    /\ ingest_response = NoResponse
    /\ matcher = <<>>
    /\ InitWeb

NextIngest ==
    \/ \E c \in Clients, m \in MeetingIds, h \in ContentHashes : IngestLookup(c, m, h)
    \/ \E c \in Clients : IngestInsert(c)
    \/ \E d \in documents : ProcessDocument(d)
    \/ \E id \in DocumentIds : DeleteDocument(id)
    \/ \E id \in MeetingIds : DeleteMeeting(id)

SpecIngest == InitIngest /\ [][NextIngest]_vars

(***************************************************************************)
(* The catalog with its alerts: matching and the DELETE cascades, from a   *)
(* migrated database that holds two processed documents, a property and    *)
(* an ingest job, every company subscribed to every municipality.          *)
(***************************************************************************)
Init ==
    /\ companies = {[id |-> c] : c \in CompanyIds}
    /\ municipalities = {[id |-> m, name |-> m] : m \in MunicipalityIds}
    /\ meetings = {[id |-> m, municipality_id |-> m] : m \in MunicipalityIds}
    /\ documents = {[id |-> m, meeting_id |-> m, content_hash |-> m,
                     status |-> "processed"] : m \in MunicipalityIds}
    /\ alerts = {}
    /\ properties = {[id |-> 1, company_id |-> 1, municipality_id |-> 1,
                      address |-> 1, city |-> 1,
                      property_type |-> "Residential"]}
    /\ ingest_jobs = {[id |-> 1, company_id |-> MaxCompanies, municipality |-> NULL,
                       municipality_id |-> 1]}
    /\ company_municipalities =
          {[company_id |-> c, municipality_id |-> m] :
              c \in CompanyIds, m \in MunicipalityIds}
    /\ users = {}
    /\ audit_trails = {}
    /\ schema = SchemaMigrated
    /\ schema_migrations = VersionsMigrated
    /\ documents_id_seq = MaxMunicipalities
    /\ alerts_id_seq = 0
    /\ properties_id_seq = Cardinality(properties)
    /\ sql_result = NoStatement
    /\ ingest = [c \in Clients |-> IdleIngest]
    /\ ingest_response = NoResponse
    /\ matcher = <<>>
    /\ InitWeb

Next ==
    \/ \E co \in CompanyIds, d \in documents : MatcherCheck(co, d)
    \/ MatcherInsert
    \/ \E id \in DocumentIds : DeleteDocument(id)
    \/ \E id \in MeetingIds : DeleteMeeting(id)
    \/ \E id \in MunicipalityIds : DeleteMunicipality(id)
    \/ \E id \in CompanyIds : DeleteCompany(id)

Spec == Init /\ [][Next]_vars

(***************************************************************************)
(* The tenant-scoped API over a migrated database: the properties are      *)
(* dealt to the companies from the first up, the alerts from the last      *)
(* down, so that each kind of row has an owner and a stranger.             *)
(***************************************************************************)
InitTenant ==
    /\ companies = {[id |-> c] : c \in CompanyIds}
    /\ municipalities = {[id |-> m, name |-> m] : m \in MunicipalityIds}
    /\ meetings = {[id |-> m, municipality_id |-> m] : m \in MunicipalityIds}
    /\ documents = {[id |-> m, meeting_id |-> m, content_hash |-> m,
                     status |-> "processed"] : m \in MunicipalityIds}
    /\ alerts = {[id |-> a, company_id |-> MaxCompanies - ((a - 1) % MaxCompanies),
                  document_id |-> 1, review_status |-> "pending",
                  property_matches |-> NoMatches, rule_matches |-> NoMatches] :
                     a \in 1..MaxAlerts}
    /\ properties = {[id |-> p, company_id |-> ((p - 1) % MaxCompanies) + 1,
                      municipality_id |-> 1, address |-> 1, city |-> 1,
                      property_type |-> "Residential"] :
                         p \in 1..MaxProperties}
    /\ ingest_jobs = {}
    /\ company_municipalities =
          {[company_id |-> c, municipality_id |-> m] :
              c \in CompanyIds, m \in MunicipalityIds}
    /\ users = {}
    /\ audit_trails = {}
    /\ schema = SchemaMigrated
    /\ schema_migrations = VersionsMigrated
    /\ documents_id_seq = MaxMunicipalities
    /\ alerts_id_seq = MaxAlerts
    /\ properties_id_seq = Cardinality(properties)
    /\ sql_result = NoStatement
    /\ ingest = [c \in Clients |-> IdleIngest]
    /\ ingest_response = NoResponse
    /\ matcher = <<>>
    /\ InitWeb

NextTenant ==
    \/ \E co \in CompanyIds : PropertiesList(co)
    \/ \E co \in CompanyIds, id \in PropertyPathIds : PropertiesGet(co, id)
    \/ \E co \in CompanyIds, id \in PropertyPathIds, address \in Addresses :
          PropertiesUpdate(co, id, address)
    \/ \E co \in CompanyIds, id \in PropertyPathIds : PropertiesDelete(co, id)
    \/ \E co \in CompanyIds : AlertsList(co)
    \/ \E co \in CompanyIds, id \in AlertPathIds : AlertsGet(co, id)
    \/ \E co \in CompanyIds, id \in AlertPathIds, status \in SubmittedStatuses :
          AlertsUpdateStatus(co, id, status)

SpecTenant == InitTenant /\ [][NextTenant]_vars

(***************************************************************************)
(* The properties page over a migrated database: company c subscribes to   *)
(* one municipality, in which its seeded property lies.                    *)
(***************************************************************************)
MunicipalityOfCompany(c) == ((c - 1) % MaxMunicipalities) + 1

InitProperty ==
    /\ companies = {[id |-> c] : c \in CompanyIds}
    /\ municipalities = {[id |-> m, name |-> m] : m \in MunicipalityIds}
    /\ meetings = {}
    /\ documents = {}
    /\ alerts = {}
    /\ properties = {[id |-> p, company_id |-> ((p - 1) % MaxCompanies) + 1,
                      municipality_id |->
                          MunicipalityOfCompany(((p - 1) % MaxCompanies) + 1),
                      address |-> 1, city |-> 1,
                      property_type |-> "Residential"] : p \in 1..MaxProperties}
    /\ ingest_jobs = {}
    /\ company_municipalities =
          {[company_id |-> c, municipality_id |-> MunicipalityOfCompany(c)] :
              c \in CompanyIds}
    /\ users = {}
    /\ audit_trails = {}
    /\ schema = SchemaMigrated
    /\ schema_migrations = VersionsMigrated
    /\ documents_id_seq = 0
    /\ alerts_id_seq = 0
    /\ properties_id_seq = Cardinality(properties)
    /\ sql_result = NoStatement
    /\ ingest = [c \in Clients |-> IdleIngest]
    /\ ingest_response = NoResponse
    /\ matcher = <<>>
    /\ InitWeb

NextProperty ==
    \/ \E co \in CompanyIds : PropertiesList(co)
    \/ \E co \in CompanyIds, address \in Addresses, m \in MunicipalityIds \cup {NULL} :
          PropertiesCreate(co, PropertyBody(address, m, "Residential"))
    \/ \E co \in CompanyIds, id \in PropertyIds, address \in Addresses :
          PropertiesUpdate(co, id, address)

SpecProperty == InitProperty /\ [][NextProperty]_vars

(***************************************************************************)
(* The review workflow over alerts that have been worked on: every seeded  *)
(* alert is resolved, and its company reads it and sets its status.        *)
(***************************************************************************)
InitReview ==
    /\ companies = {[id |-> c] : c \in CompanyIds}
    /\ municipalities = {[id |-> m, name |-> m] : m \in MunicipalityIds}
    /\ meetings = {[id |-> m, municipality_id |-> m] : m \in MunicipalityIds}
    /\ documents = {[id |-> m, meeting_id |-> m, content_hash |-> m,
                     status |-> "processed"] : m \in MunicipalityIds}
    /\ alerts = {[id |-> a, company_id |-> ((a - 1) % MaxCompanies) + 1,
                  document_id |-> 1, review_status |-> "resolved",
                  property_matches |-> NoMatches, rule_matches |-> NoMatches] :
                     a \in AlertPathIds}
    /\ properties = {}
    /\ ingest_jobs = {}
    /\ company_municipalities =
          {[company_id |-> c, municipality_id |-> m] :
              c \in CompanyIds, m \in MunicipalityIds}
    /\ users = {}
    /\ audit_trails = {}
    /\ schema = SchemaMigrated
    /\ schema_migrations = VersionsMigrated
    /\ documents_id_seq = MaxMunicipalities
    /\ alerts_id_seq = Cardinality(alerts)
    /\ properties_id_seq = Cardinality(properties)
    /\ sql_result = NoStatement
    /\ ingest = [c \in Clients |-> IdleIngest]
    /\ ingest_response = NoResponse
    /\ matcher = <<>>
    /\ InitWeb

NextReview ==
    \/ \E co \in CompanyIds : AlertsList(co)
    \/ \E co \in CompanyIds, id \in AlertPathIds : AlertsGet(co, id)
    \/ \E co \in CompanyIds, id \in AlertPathIds, status \in SubmittedStatuses :
          AlertsUpdateStatus(co, id, status)

SpecReview == InitReview /\ [][NextReview]_vars

(***************************************************************************)
(* Subscription management next to the matcher: each company holds a       *)
(* property in its municipality and turns its subscription to it off and   *)
(* on, while the matcher creates the alerts of the subscribed companies.   *)
(***************************************************************************)
InitSubscription ==
    /\ companies = {[id |-> c] : c \in CompanyIds}
    /\ municipalities = {[id |-> m, name |-> m] : m \in MunicipalityIds}
    /\ meetings = {[id |-> m, municipality_id |-> m] : m \in MunicipalityIds}
    /\ documents = {[id |-> m, meeting_id |-> m, content_hash |-> m,
                     status |-> "processed"] : m \in MunicipalityIds}
    /\ alerts = {}
    /\ properties = {[id |-> c, company_id |-> c,
                      municipality_id |-> MunicipalityOfCompany(c),
                      address |-> 1, city |-> 1,
                      property_type |-> "Residential"] : c \in CompanyIds}
    /\ ingest_jobs = {}
    /\ company_municipalities =
          {[company_id |-> c, municipality_id |-> MunicipalityOfCompany(c)] :
              c \in CompanyIds}
    /\ users = {}
    /\ audit_trails = {}
    /\ schema = SchemaMigrated
    /\ schema_migrations = VersionsMigrated
    /\ documents_id_seq = MaxMunicipalities
    /\ alerts_id_seq = 0
    /\ properties_id_seq = Cardinality(properties)
    /\ sql_result = NoStatement
    /\ ingest = [c \in Clients |-> IdleIngest]
    /\ ingest_response = NoResponse
    /\ matcher = <<>>
    /\ InitWeb

NextSubscription ==
    \/ \E co \in CompanyIds, d \in documents : MatcherCheck(co, d)
    \/ MatcherInsert
    \/ \E co \in CompanyIds :
          \E ms \in SUBSET {MunicipalityOfCompany(co)} :
              CompaniesUpdateMunicipalities(co, ms)
    \/ \E co \in CompanyIds : AlertsList(co)
    \/ \E co \in CompanyIds : PropertiesList(co)

SpecSubscription == InitSubscription /\ [][NextSubscription]_vars

(***************************************************************************)
(* The alerts page: the matcher creates the alerts of the subscribed       *)
(* companies, each company sees the cards of its own alerts and presses    *)
(* their status buttons.  Company c subscribes to municipality c.          *)
(***************************************************************************)
\* The statuses the buttons of an alert card submit.
CardButtons == {"reviewing", "resolved", "false_positive"}

\* The badge of a card: statusColors[alert.review_status] and
\* statusIcons[alert.review_status]; a status outside their keys has neither.
statusColors ==
    [pending |-> "bg-yellow-100 text-yellow-800", reviewing |-> "bg-blue-100 text-blue-800",
     resolved |-> "bg-green-100 text-green-800", false_positive |-> "bg-gray-100 text-gray-800"]
statusIcons ==
    [pending |-> "AlertCircle", reviewing |-> "AlertCircle",
     resolved |-> "CheckCircle", false_positive |-> "XCircle"]

\* The options of the status filter other than "All Statuses".
FilterStatuses == {"pending", "reviewing", "resolved", "false_positive"}

\* A button of the card of alert a, in the list of company co; the button of
\* the status the card shows is disabled.
AlertCardUpdateStatus(co, a, button) ==
    /\ a \in Scope(alerts, co)
    /\ button # a.review_status
    /\ AlertsUpdateStatus(co, a.id, button)

InitCard ==
    /\ companies = {[id |-> c] : c \in CompanyIds}
    /\ municipalities = {[id |-> m, name |-> m] : m \in MunicipalityIds}
    /\ meetings = {[id |-> m, municipality_id |-> m] : m \in MunicipalityIds}
    /\ documents = {[id |-> m, meeting_id |-> m, content_hash |-> m,
                     status |-> "processed"] : m \in MunicipalityIds}
    /\ alerts = {}
    /\ properties = {}
    /\ ingest_jobs = {}
    /\ company_municipalities =
          {[company_id |-> c, municipality_id |-> c] :
              c \in CompanyIds \cap MunicipalityIds}
    /\ users = {}
    /\ audit_trails = {}
    /\ schema = SchemaMigrated
    /\ schema_migrations = VersionsMigrated
    /\ documents_id_seq = MaxMunicipalities
    /\ alerts_id_seq = 0
    /\ properties_id_seq = Cardinality(properties)
    /\ sql_result = NoStatement
    /\ ingest = [c \in Clients |-> IdleIngest]
    /\ ingest_response = NoResponse
    /\ matcher = <<>>
    /\ InitWeb

NextCard ==
    \/ \E co \in CompanyIds, d \in documents : MatcherCheck(co, d)
    \/ MatcherInsert
    \/ \E co \in CompanyIds : AlertsList(co)
    \/ \E co \in CompanyIds, a \in alerts, button \in CardButtons :
          AlertCardUpdateStatus(co, a, button)
    \/ \E op \in DocumentReads, co \in CompanyIds, id \in DocumentPathIds :
          DocumentsRead(op, co, id)

SpecCard == InitCard /\ [][NextCard]_vars

(***************************************************************************)
(* One browser: sign-in, sign-out and outgoing requests, in either build.  *)
(***************************************************************************)
InitAuth ==
    /\ companies = {[id |-> c] : c \in CompanyIds}
    /\ municipalities = {}
    /\ meetings = {}
    /\ documents = {}
    /\ alerts = {}
    /\ properties = {}
    /\ ingest_jobs = {}
    /\ company_municipalities = {}
    /\ users = {}
    /\ audit_trails = {}
    /\ schema = SchemaMigrated
    /\ schema_migrations = VersionsMigrated
    /\ documents_id_seq = 0
    /\ alerts_id_seq = 0
    /\ properties_id_seq = Cardinality(properties)
    /\ sql_result = NoStatement
    /\ ingest = [c \in Clients |-> IdleIngest]
    /\ ingest_response = NoResponse
    /\ matcher = <<>>
    /\ api_response = NoApiResponse
    /\ node_env \in {"development", "production"}
    /\ account = NoAccount
    /\ token = NoToken
    /\ request = NoRequest
    /\ page = NoPage

NextAuth ==
    \/ \E u \in Clients, id_token \in IdTokens : SignIn(u, id_token)
    \/ Refresh
    \/ SignOut
    \/ Intercept

SpecAuth == InitAuth /\ [][NextAuth]_vars

(***************************************************************************)
(* The properties page of one browser whose session may change.            *)
(***************************************************************************)
InitPage ==
    /\ companies = {[id |-> c] : c \in CompanyIds}
    /\ municipalities = {[id |-> m, name |-> m] : m \in MunicipalityIds}
    /\ meetings = {}
    /\ documents = {}
    /\ alerts = {}
    /\ \E n \in 0..MaxProperties :
          properties = {[id |-> i, company_id |-> 1, municipality_id |-> 1,
                         address |-> i, city |-> 1, property_type |-> "Office"] :
                            i \in 1..n}
    /\ ingest_jobs = {}
    /\ company_municipalities = {}
    /\ users = {}
    /\ audit_trails = {}
    /\ schema = SchemaMigrated
    /\ schema_migrations = VersionsMigrated
    /\ documents_id_seq = 0
    /\ alerts_id_seq = 0
    /\ properties_id_seq = Cardinality(properties)
    /\ sql_result = NoStatement
    /\ ingest = [c \in Clients |-> IdleIngest]
    /\ ingest_response = NoResponse
    /\ matcher = <<>>
    /\ InitWeb

NextPage ==
    \/ \E role \in Roles : SignIn(1, Claims("jwt", 1, NULL, role, ""))
    \/ SignOut
    \/ SetShowAddForm
    \/ CancelAddForm
    \/ \E ok \in BOOLEAN : CreateProperty(ok)
    \/ \E p \in Ids(properties) : SetIsEditing(p)
    \/ \E p \in Ids(properties) : CancelEdit(p)
    \/ \E p \in Ids(properties), ok \in BOOLEAN : UpdateProperty(p, ok)
    \/ \E p \in Ids(properties), answer \in BOOLEAN : DeleteProperty(p, answer)

SpecPage == InitPage /\ [][NextPage]_vars

(***************************************************************************)
(* One PropertyForm, mounted for a new property or for a stored one.       *)
(***************************************************************************)
MaxAliases == 2
FormChars == {"a", " ", ","}
\* The aliases stored properties carry: written by any client of the API.
StoredAliases == {<<>>, <<"a">>, <<"a", " ", "a">>, <<" ", "a">>, <<"a", ",", "a">>}

\* onChange of the aliases input.
Change(text) ==
    /\ page.property.kind # "none"
    /\ page' = [page EXCEPT !.formData.aliases = text]
    /\ PageOnly

\* The form's submit: handleSubmit, then onSubmit({...formData, aliases}); the
\* request succeeds and the parent unmounts the form.
Submit ==
    /\ page.property.kind # "none"
    /\ page' = [page EXCEPT
          !.mutation = Mutation(IF page.property.kind = "new" THEN "properties.create"
                                ELSE "properties.update",
                                IF page.property.kind = "new" THEN NULL ELSE 1,
                                handleSubmit(page.formData)),
          !.property = NoProperty,
          !.formData = [aliases |-> <<>>],
          !.showAddForm = FALSE,
          !.isEditing = {}]
    /\ PageOnly

InitForm ==
    /\ companies = {[id |-> c] : c \in CompanyIds}
    /\ municipalities = {[id |-> m, name |-> m] : m \in MunicipalityIds}
    /\ meetings = {}
    /\ documents = {}
    /\ alerts = {}
    /\ properties = {[id |-> 1, company_id |-> 1, municipality_id |-> 1,
                      address |-> 1, city |-> 1, property_type |-> "Office"]}
    /\ ingest_jobs = {}
    /\ company_municipalities = {}
    /\ users = {}
    /\ audit_trails = {}
    /\ schema = SchemaMigrated
    /\ schema_migrations = VersionsMigrated
    /\ documents_id_seq = 0
    /\ alerts_id_seq = 0
    /\ properties_id_seq = Cardinality(properties)
    /\ sql_result = NoStatement
    /\ ingest = [c \in Clients |-> IdleIngest]
    /\ ingest_response = NoResponse
    /\ matcher = <<>>
    /\ api_response = NoApiResponse
    /\ node_env = "production"
    /\ account = [access_token |-> 1, id_token |-> Claims("jwt", 1, NULL, "admin", "")]
    /\ token = jwt([NoToken EXCEPT !.sub = 1], account)
    /\ request = NoRequest
    /\ \E property \in {NewProperty} \cup
                        {ExistingProperty(as) : as \in SeqsUpTo(StoredAliases, MaxAliases)} :
          page = [NoPage EXCEPT !.property = property,
                                !.formData = InitialFormData(property),
                                !.showAddForm = (property.kind = "new"),
                                !.isEditing = IF property.kind = "new" THEN {} ELSE {1}]

NextForm ==
    \/ \E text \in SeqsUpTo(FormChars, MaxTextLen) : Change(text)
    \/ Submit

SpecForm == InitForm /\ [][NextForm]_vars

(***************************************************************************)
(* Claims about document ingestion.                                        *)
(***************************************************************************)

\* C1: once migration 002 is recorded, no two document rows carry the same
\* content_hash, whatever ingestions ran and however they interleaved.
C1_UniqueContentHash ==
    "002_schema_optimizations" \in schema_migrations =>
        \A h \in ContentHashes :
            Cardinality({d \in documents : d.content_hash = h}) <= 1

\* Two ingests of one hash have both been answered (the second through the
\* constraint) and the hash is stored.
C1_Witness ==
    /\ ingest_response.status = "exists"
    /\ ingest_response.conflict
    /\ \E d \in documents : d.content_hash = ingest_response.content_hash

\* An ingest request for hash h is answered in this step (an answer equal to
\* the previous one comes from a step that changes nothing).
IngestAnswered(h) ==
    /\ ingest_response'.content_hash = h
    /\ ingest_response' # ingest_response

\* C2: an ingest whose hash is already stored is a no-op: the documents table
\* (row count, and the status of the stored row) is unchanged, and the answer
\* is the id of the stored row, which is the id the creating ingest returned;
\* an ingest that creates a row answers with the id of that new row.
C2_ReingestNoOp ==
    [][\A h \in ContentHashes :
          IngestAnswered(h) =>
              IF \E d \in documents : d.content_hash = h
              THEN /\ documents' = documents
                   /\ ingest_response'.status = "exists"
                   /\ \E d \in documents :
                         d.content_hash = h /\ d.id = ingest_response'.id
              ELSE \/ ingest_response'.status = "missing_parent" /\ documents' = documents
                   \/ /\ ingest_response'.status = "created"
                      /\ \E d \in documents' \ documents :
                            /\ documents' = documents \cup {d}
                            /\ d.content_hash = h
                            /\ d.id = ingest_response'.id]_vars

\* A re-ingest of a hash whose document has meanwhile been processed was
\* answered with that document's id, and the document is still processed.
C2_Witness ==
    /\ ingest_response.status = "exists"
    /\ ~ingest_response.conflict
    /\ \E d \in documents :
          /\ d.content_hash = ingest_response.content_hash
          /\ d.id = ingest_response.id
          /\ d.status = "processed"

\* C3: when two ingests of one hash race (both passed the lookup), the insert
\* that comes second is rejected by the unique constraint, creates no row, and
\* is answered "exists" with the stored row's id, not with an error.
C3_ConcurrentIngest ==
    [][\A c \in Clients :
          (ingest[c].pc = "insert" /\ ingest'[c].pc = "idle"
              /\ \E d \in documents : d.content_hash = ingest[c].content_hash) =>
              /\ documents' = documents
              /\ ingest_response'.status = "exists"
              /\ ingest_response'.conflict
              /\ \E d \in documents :
                    /\ d.content_hash = ingest[c].content_hash
                    /\ d.id = ingest_response'.id]_vars

\* The rejected insert of a race has been answered, while the other client
\* is idle again: both requests are complete and one row holds the hash.
C3_Witness ==
    /\ ingest_response.status = "exists"
    /\ ingest_response.conflict
    /\ \A c \in Clients : ingest[c].pc = "idle"
    /\ Cardinality({d \in documents :
                       d.content_hash = ingest_response.content_hash}) = 1
    /\ documents_id_seq >= 2

(***************************************************************************)
(* Claims about referential integrity and the DELETE cascades.             *)
(***************************************************************************)
C8_NoOrphanAlert ==
    \A a \in alerts :
        /\ \E d \in documents : d.id = a.document_id
        /\ \E c \in companies : c.id = a.company_id

C8_DeleteExact ==
    LET gone_d == Ids(documents) \ Ids(documents')
        gone_c == Ids(companies) \ Ids(companies')
    IN  (gone_d # {} \/ gone_c # {}) =>
            alerts' = {a \in alerts :
                          a.document_id \notin gone_d /\ a.company_id \notin gone_c}

\* C8: in the migrated schema every alert references a stored document and a
\* stored company, and a step that deletes documents or companies deletes
\* exactly the alerts that reference them.
C8_AlertIntegrity == []C8_NoOrphanAlert /\ [][C8_DeleteExact]_vars

\* A document delete has cascaded to its alerts while another document's
\* alert is still stored.
C8_Witness ==
    /\ sql_result.statement = "delete_document"
    /\ sql_result.error = "none"
    /\ sql_result.alerts_deleted > 0
    /\ alerts # {}

\* The DELETE statement of that name and id is answered in this step.
Answered(name, id) ==
    /\ sql_result' # sql_result
    /\ sql_result'.statement = name
    /\ sql_result'.id = id

MunicipalityCascade(m) ==
    LET mts == {mt \in meetings : mt.municipality_id = m}
        ds == {d \in documents : d.meeting_id \in Ids(mts)}
    IN  /\ municipalities' = {x \in municipalities : x.id # m}
        /\ meetings' = meetings \ mts
        /\ documents' = documents \ ds
        /\ alerts' = {a \in alerts : a.document_id \notin Ids(ds)}

DocumentCascade(d) ==
    /\ documents' = {x \in documents : x.id # d}
    /\ alerts' = {a \in alerts : a.document_id # d}

MunicipalityReferenced(m) ==
    \/ \E x \in properties : x.municipality_id = m
    \/ \E j \in ingest_jobs : j.municipality_id = m

\* C9 as stated: deleting a municipality always succeeds and cascades to its
\* meetings, their documents and the alerts on them; deleting a document
\* removes its alerts.
C9_Original ==
    [][/\ \A m \in MunicipalityIds :
            Answered("delete_municipality", m) =>
                sql_result'.error = "none" /\ MunicipalityCascade(m)
       /\ \A d \in DocumentIds :
            Answered("delete_document", d) =>
                sql_result'.error = "none" /\ DocumentCascade(d)]_vars

\* C9 amended: deleting a municipality that no property and no ingest job
\* references succeeds and cascades to its meetings, their documents and the
\* alerts on them; while a property or an ingest job references it the delete
\* is rejected and no table changes; deleting a document always succeeds and
\* removes its alerts.
C9_CascadeChain ==
    [][/\ \A m \in MunicipalityIds :
            Answered("delete_municipality", m) =>
                IF MunicipalityReferenced(m)
                THEN sql_result'.error # "none" /\ UNCHANGED tables
                ELSE sql_result'.error = "none" /\ MunicipalityCascade(m)
       /\ \A d \in DocumentIds :
            Answered("delete_document", d) =>
                sql_result'.error = "none" /\ DocumentCascade(d)]_vars

\* A municipality delete has succeeded and its cascade reached alerts.
C9_Witness ==
    /\ sql_result.statement = "delete_municipality"
    /\ sql_result.error = "none"
    /\ sql_result.alerts_deleted > 0

(***************************************************************************)
(* Migrations 002 and 003.  Each runs between BEGIN and COMMIT: a world is *)
(* [error, schema, db, versions]; a step that fails sets error, the steps  *)
(* after it are skipped and the transaction rolls back.                    *)
(***************************************************************************)
World == [error |-> "none", schema |-> schema, db |-> DB, versions |-> schema_migrations]

Fail(w, err) == [w EXCEPT !.error = err]

\* ALTER TABLE ... ADD CONSTRAINT / SET NOT NULL: the rows are validated.
AddConstraint(w, name) ==
    IF w.error # "none" THEN w
    ELSE IF ~Holds(name, w.db) THEN Fail(w, name)
    ELSE [w EXCEPT !.schema = @ \cup {name}]

\* ADD CONSTRAINT of a name that exists already is an error.
AddNamedConstraint(w, name) ==
    IF w.error = "none" /\ name \in w.schema
    THEN Fail(w, "already_exists")
    ELSE AddConstraint(w, name)

\* An UPDATE or DELETE inside the migration, under the constraints in force.
Run(w, new) ==
    IF w.error # "none" THEN w
    ELSE LET res == Statement(w.schema, w.db, new)
         IN  IF res.error = "none" THEN [w EXCEPT !.db = new] ELSE Fail(w, res.error)

\* INSERT INTO schema_migrations (version) ... ON CONFLICT (version) DO NOTHING.
RecordVersion(w, v) ==
    IF w.error # "none" THEN w ELSE [w EXCEPT !.versions = @ \cup {v}]

\* DELETE the alerts and audit trails whose document and the properties whose
\* municipality is not stored (002 step 11, 003 step 9).
CleanupOrphans(w) ==
    IF w.error # "none" THEN w
    ELSE Run(w, [w.db EXCEPT
            !.alerts = {a \in @ : ~(a.document_id # NULL
                                     /\ a.document_id \notin Ids(w.db.documents))},
            !.audit_trails = {t \in @ : ~(t.document_id # NULL
                                     /\ t.document_id \notin Ids(w.db.documents))},
            !.properties = {x \in @ : ~(x.municipality_id # NULL
                                     /\ x.municipality_id \notin Ids(w.db.municipalities))}])

\* 002 step 2: back-fill properties.municipality_id from the city name.
BackfillPropertyMunicipality(db) ==
    [db EXCEPT !.properties =
        {IF x.municipality_id = NULL /\ \E m \in db.municipalities : m.name = x.city
         THEN [x EXCEPT !.municipality_id =
                  (CHOOSE m \in db.municipalities : m.name = x.city).id]
         ELSE x : x \in @}]

\* 002 step 3: municipality_id added and back-filled from the municipality
\* name, then the name column dropped.
BackfillIngestJobMunicipality(db) ==
    [db EXCEPT !.ingest_jobs =
        {[j EXCEPT !.municipality = NULL,
                   !.municipality_id =
                      IF \E m \in db.municipalities : m.name = j.municipality
                      THEN (CHOOSE m \in db.municipalities : m.name = j.municipality).id
                      ELSE NULL] : j \in @}]

\* 002 step 8: 'reviewing' becomes 'reviewed'.
CollapseReviewStatus(db) ==
    [db EXCEPT !.alerts =
        {IF a.review_status = "reviewing" THEN [a EXCEPT !.review_status = "reviewed"]
         ELSE a : a \in @}]

Migration002(w) ==
    LET s1 == AddNamedConstraint(w, "documents_content_hash_unique")
        s2 == AddConstraint(Run(s1, BackfillPropertyMunicipality(s1.db)),
                            "properties_municipality_id_not_null")
        s3 == AddConstraint(Run(s2, BackfillIngestJobMunicipality(s2.db)),
                            "ingest_jobs_municipality_id_fkey")
        s8 == AddNamedConstraint(Run(s3, CollapseReviewStatus(s3.db)),
                                 "alerts_review_status_check")
    IN  RecordVersion(CleanupOrphans(s8), "002_schema_optimizations")

\* 003 step 1: every alert with a NULL document_id gets the id of the one
\* document that SELECT id FROM documents LIMIT 1 returns (d), if any.
BackfillAlertDocument_every(db, d) ==
    [db EXCEPT !.alerts =
        {IF db.documents # {} THEN [a EXCEPT !.document_id = d] ELSE a : a \in @}]
BackfillAlertDocument(db, d) ==
    [db EXCEPT !.alerts =
        {IF a.document_id = NULL /\ db.documents # {}
         THEN [a EXCEPT !.document_id = d] ELSE a : a \in @}]

\* 003 step 2: both payload columns of every alert are normalized.
NormalizeAlertMatches(db) ==
    [db EXCEPT !.alerts =
        {[a EXCEPT !.property_matches = NormalizeMatches(@),
                   !.rule_matches = NormalizeMatches(@)] : a \in @}]

\* 003 step 3 alters ingest_jobs.municipality_id, the column 002 step 3 adds.
Migration003(w, d) ==
    LET s1 == AddConstraint(Run(w, BackfillAlertDocument(w.db, d)),
                            "alerts_document_id_not_null")
        s2 == Run(s1, NormalizeAlertMatches(s1.db))
        s3 == IF s2.error = "none" /\ "ingest_jobs_municipality_id_fkey" \notin s2.schema
              THEN Fail(s2, "undefined_column")
              ELSE AddConstraint(s2, "ingest_jobs_municipality_id_not_null")
    IN  RecordVersion(CleanupOrphans(s3), "003_final_optimizations")

\* COMMIT, or ROLLBACK when a step failed.
Migrate_partial(name, w) ==
    /\ Commit(w.db)
    /\ schema' = w.schema
    /\ schema_migrations' = w.versions
    /\ sql_result' = [statement |-> name, id |-> NULL, error |-> w.error,
                      alerts_deleted |-> 0]
    /\ UNCHANGED <<web, documents_id_seq, alerts_id_seq, properties_id_seq, ingest, ingest_response, matcher>>
Migrate(name, w) ==
    /\ IF w.error = "none"
       THEN /\ Commit(w.db)
            /\ schema' = w.schema
            /\ schema_migrations' = w.versions
       ELSE UNCHANGED <<tables, schema, schema_migrations>>
    /\ sql_result' = [statement |-> name, id |-> NULL, error |-> w.error,
                      alerts_deleted |-> 0]
    /\ UNCHANGED <<web, documents_id_seq, alerts_id_seq, properties_id_seq, ingest, ingest_response, matcher>>

Migrate002 == Migrate("migration_002", Migration002(World))

\* LIMIT 1 without ORDER BY returns any one row of documents.
Migrate003 ==
    \E d \in Ids(documents) \cup {NULL} :
        /\ (d = NULL) = (documents = {})
        /\ Migrate("migration_003", Migration003(World, d))

(***************************************************************************)
(* Migration 001.  Before it the tenant tables hold the company's VARCHAR  *)
(* code in company_id, documents hold the meeting's guid, and alerts hold  *)
(* document_id as text; it replaces each by the integer key it joins to.   *)
(***************************************************************************)
\* companies.company_id and meetings.guid, the legacy keys; UnknownCode is a
\* value no company and no meeting carries.
CompanyCode(id) == MaxCompanies + id
MeetingGuid(id) == MaxMeetings + id
UnknownCode == MaxCompanies + MaxMeetings + 1
\* A document_id text that does not match '^\d+$'.
NotNumeric == -1

\* UPDATE t SET company_id_int = c.id FROM companies c
\* WHERE t.company_id = c.company_id: NULL where no company matches.
CompanyIdInt(db, code) ==
    IF \E c \in db.companies : CompanyCode(c.id) = code
    THEN (CHOOSE c \in db.companies : CompanyCode(c.id) = code).id
    ELSE NULL

ConvertCompanyId(db, rows) ==
    {[r EXCEPT !.company_id = CompanyIdInt(db, r.company_id)] : r \in rows}

\* temp_meeting_mapping: documents JOIN meetings ON meeting_guid = guid.
MeetingIdInt(db, guid) ==
    IF \E m \in db.meetings : MeetingGuid(m.id) = guid
    THEN (CHOOSE m \in db.meetings : MeetingGuid(m.id) = guid).id
    ELSE NULL

ConvertMeetingId(db) ==
    [db EXCEPT !.documents =
        {[d EXCEPT !.meeting_id = MeetingIdInt(db, d.meeting_id)] : d \in @}]

\* CASE WHEN document_id ~ '^\d+$' THEN document_id::INT ELSE NULL END
DocumentIdInt(text) == IF text = NotNumeric THEN NULL ELSE text

ConvertAlerts(db) ==
    [db EXCEPT !.alerts =
        {[a EXCEPT !.company_id = CompanyIdInt(db, a.company_id),
                   !.document_id = DocumentIdInt(a.document_id)] : a \in @}]

\* INSERT INTO company_municipalities: every company with every municipality
\* it holds an alert in.
PopulateSubscriptions_none(db) == db
PopulateSubscriptions(db) ==
    [db EXCEPT !.company_municipalities =
        @ \cup {[company_id |-> a.company_id, municipality_id |-> mt.municipality_id] :
                  <<a, d, mt>> \in
                     {x \in db.alerts \X db.documents \X db.meetings :
                         /\ x[1].document_id = x[2].id
                         /\ x[2].meeting_id = x[3].id
                         /\ x[3].municipality_id \in Ids(db.municipalities)
                         /\ x[1].company_id \in Ids(db.companies)}}]

\* The statements of migration 001 that change rows or constraints, in the
\* order of the script; each ADD CONSTRAINT and SET NOT NULL validates the
\* rows and aborts the transaction when one fails.
Migration001Steps == 17

Migration001Step(w, i) ==
    CASE i = 1 -> AddNamedConstraint(w, "meetings_municipality_id_fkey")
      [] i = 2 -> Run(w, ConvertMeetingId(w.db))
      [] i = 3 -> AddConstraint(w, "documents_meeting_id_fkey")
      [] i = 4 -> Run(w, ConvertAlerts(w.db))
      [] i = 5 -> AddConstraint(w, "alerts_company_id_fkey")
      [] i = 6 -> AddConstraint(w, "alerts_document_id_fkey")
      [] i = 7 -> Run(w, [w.db EXCEPT !.audit_trails = ConvertCompanyId(w.db, @)])
      [] i = 8 -> AddConstraint(w, "audit_trails_company_id_fkey")
      [] i = 9 -> Run(w, [w.db EXCEPT !.ingest_jobs = ConvertCompanyId(w.db, @)])
      [] i = 10 -> AddConstraint(w, "ingest_jobs_company_id_fkey")
      [] i = 11 -> Run(w, [w.db EXCEPT !.users = ConvertCompanyId(w.db, @)])
      [] i = 12 -> AddConstraint(w, "users_company_id_fkey")
      [] i = 13 -> Run(w, [w.db EXCEPT !.properties = ConvertCompanyId(w.db, @)])
      [] i = 14 -> AddConstraint(w, "properties_company_id_fkey")
      [] i = 15 -> AddConstraint(w, "properties_municipality_id_fkey")
      [] i = 16 -> AddConstraint(w, "properties_company_address_unique")
      [] i = 17 -> Run(AddConstraint(w, "company_municipalities_fkeys"),
                       PopulateSubscriptions(w.db))

\* The world after statements i, i + 1, ... of the script, run from world w0.
RECURSIVE Migration001From(_, _)
Migration001From(w0, i) ==
    IF i > Migration001Steps THEN w0
    ELSE CHOOSE r \in {Migration001From(Migration001Step(w, i), i + 1) : w \in {w0}} :
            TRUE

Migration001(w) == Migration001From(w, 1)

Migrate001 == Migrate("migration_001", Migration001(World))

\* The table of n rows, numbered 1, 2, ..., whose other columns are f[i].
Rows(n, f) == {[id |-> i] @@ f[i] : i \in 1..n}

\* The database before migration 001: at most one row per table, keyed by the
\* legacy codes.
InitMig001 ==
    /\ companies = {[id |-> c] : c \in CompanyIds}
    /\ municipalities = {[id |-> m, name |-> m] : m \in MunicipalityIds}
    /\ meetings = {[id |-> m, municipality_id |-> m] : m \in MunicipalityIds}
    /\ \E n \in 0..1 :
         \E f \in [1..n -> [meeting_id : {MeetingGuid(1), UnknownCode},
                             content_hash : {1}, status : {"processed"}]] :
            documents = Rows(n, f)
    /\ \E n \in 0..1 :
         \E f \in [1..n -> [company_id : {CompanyCode(c) : c \in CompanyIds}
                                             \cup {UnknownCode},
                             document_id : {NULL, 1, NotNumeric},
                             review_status : {"pending"},
                             property_matches : {NoMatches},
                             rule_matches : {NoMatches}]] :
            alerts = Rows(n, f)
    /\ \E n \in 0..1 :
         \E f \in [1..n -> [company_id : {CompanyCode(1), UnknownCode},
                             address : {1}, city : {1},
                             property_type : {"Office"},
                             municipality_id : {NULL}]] :
            properties = Rows(n, f)
    /\ \E n \in 0..1 :
         \E f \in [1..n -> [company_id : {CompanyCode(1)}, municipality : {1},
                             municipality_id : {NULL}]] :
            ingest_jobs = Rows(n, f)
    /\ company_municipalities = {}
    /\ \E n \in 0..1 :
         \E f \in [1..n -> [company_id : {CompanyCode(c) : c \in CompanyIds}
                                             \cup {UnknownCode}]] :
            users = Rows(n, f)
    /\ \E n \in 0..1 :
         \E f \in [1..n -> [company_id : {CompanyCode(c) : c \in CompanyIds}
                                             \cup {UnknownCode},
                             document_id : {NULL}]] :
            audit_trails = Rows(n, f)
    /\ schema = {}
    /\ schema_migrations = {}
    /\ documents_id_seq = Cardinality(documents)
    /\ alerts_id_seq = Cardinality(alerts)
    /\ properties_id_seq = Cardinality(properties)
    /\ sql_result = NoStatement
    /\ ingest = [c \in Clients |-> IdleIngest]
    /\ ingest_response = NoResponse
    /\ matcher = <<>>
    /\ InitWeb

\* Companies are deleted once the integer foreign keys are in place.
NextMig001 ==
    \/ Migrate001
    \/ \E id \in CompanyIds : Schema001 \subseteq schema /\ DeleteCompany(id)

SpecMig001 == InitMig001 /\ [][NextMig001]_vars

\* 003 (full variant) step 9 lists the property types between double quotes,
\* which SQL reads as column names of properties, not as string literals.
PropertyTypes ==
    {"Residential", "Commercial", "Industrial", "Mixed-Use", "Agricultural",
     "Institutional", "Office"}
PropertiesColumns ==
    {"id", "company_id", "municipality_id", "address", "city", "property_type"}

\* ADD CONSTRAINT ... CHECK (expr): fails when expr names a column the table
\* does not have.
AddCheck(w, name, columns) ==
    IF w.error # "none" THEN w
    ELSE IF ~(columns \subseteq PropertiesColumns) THEN Fail(w, "undefined_column")
    ELSE AddNamedConstraint(w, name)

\* The full variant of 003: the steps of the simplified one, with step 9
\* between the NOT NULL steps and the cleanup.
Migration003Full(w, d) ==
    LET s1 == AddConstraint(Run(w, BackfillAlertDocument(w.db, d)),
                            "alerts_document_id_not_null")
        s2 == Run(s1, NormalizeAlertMatches(s1.db))
        s3 == IF s2.error = "none" /\ "ingest_jobs_municipality_id_fkey" \notin s2.schema
              THEN Fail(s2, "undefined_column")
              ELSE AddConstraint(s2, "ingest_jobs_municipality_id_not_null")
        s9 == AddCheck(s3, "properties_property_type_check", PropertyTypes)
    IN  RecordVersion(CleanupOrphans(s9), "003_final_optimizations")

Migrate003Full ==
    \E d \in Ids(documents) \cup {NULL} :
        /\ (d = NULL) = (documents = {})
        /\ Migrate("migration_003_full", Migration003Full(World, d))

\* UPDATE properties SET property_type = t WHERE id = p.
UpdatePropertyType(id, t) ==
    LET new == [DB EXCEPT !.properties =
                   {IF x.id = id THEN [x EXCEPT !.property_type = t] ELSE x : x \in @}]
        res == Statement(schema, DB, new)
    IN  /\ id \in Ids(properties)
        /\ Commit(res.db)
        /\ sql_result' = [statement |-> "update_property_type", id |-> id,
                          error |-> res.error, alerts_deleted |-> 0]
        /\ UNCHANGED <<web, schema, schema_migrations, documents_id_seq, alerts_id_seq,
                       properties_id_seq, ingest, ingest_response, matcher>>

\* The payloads legacy alerts hold: strings of at most MaxTextLen characters
\* (delimited lists among them) and arrays of at most MaxItems entries.
MatchChars == {"a", ",", "[", "]"}
MatchItems == {<<"a">>, <<"b">>}
LegacyMatches ==
    {NoMatches} \cup {JsonString(cs) : cs \in SeqsUpTo(MatchChars, MaxTextLen)}
                \cup {JsonArray(is) : is \in SeqsUpTo(MatchItems, MaxItems)}

\* The database after 002 with one alert, its payloads in any legacy shape;
\* migration 003 is applied, and applied again.
InitNormalize ==
    /\ companies = {[id |-> c] : c \in CompanyIds}
    /\ municipalities = {[id |-> m, name |-> m] : m \in MunicipalityIds}
    /\ meetings = {[id |-> m, municipality_id |-> m] : m \in MunicipalityIds}
    /\ documents = {[id |-> 1, meeting_id |-> 1, content_hash |-> 1,
                     status |-> "processed"]}
    /\ \E pm, rm \in LegacyMatches :
          alerts = {[id |-> 1, company_id |-> 1, document_id |-> 1,
                     review_status |-> "pending",
                     property_matches |-> pm, rule_matches |-> rm]}
    /\ properties = {}
    /\ ingest_jobs = {}
    /\ company_municipalities = {}
    /\ users = {}
    /\ audit_trails = {}
    /\ schema = Schema001 \cup Schema002
    /\ schema_migrations = {"002_schema_optimizations"}
    /\ documents_id_seq = Cardinality(documents)
    /\ alerts_id_seq = Cardinality(alerts)
    /\ properties_id_seq = Cardinality(properties)
    /\ sql_result = NoStatement
    /\ ingest = [c \in Clients |-> IdleIngest]
    /\ ingest_response = NoResponse
    /\ matcher = <<>>
    /\ InitWeb

NextNormalize == Migrate003

SpecNormalize == InitNormalize /\ [][NextNormalize]_vars

\* The database after 002 with up to two documents and up to two alerts; an
\* alert references document 1 or none.  Migration 003 is applied.
InitBackfill ==
    /\ companies = {[id |-> c] : c \in CompanyIds}
    /\ municipalities = {[id |-> m, name |-> m] : m \in MunicipalityIds}
    /\ meetings = {[id |-> m, municipality_id |-> m] : m \in MunicipalityIds}
    /\ \E n \in 0..2 :
          documents = {[id |-> i, meeting_id |-> 1, content_hash |-> i,
                        status |-> "processed"] : i \in 1..n}
    /\ \E n \in 0..2 :
         \E f \in [1..n -> [company_id : CompanyIds,
                             document_id : {NULL} \cup (Ids(documents) \cap {1}),
                             review_status : {"pending", "reviewed"},
                             property_matches : {NoMatches},
                             rule_matches : {NoMatches}]] :
            alerts = Rows(n, f)
    /\ properties = {}
    /\ ingest_jobs = {}
    /\ company_municipalities = {}
    /\ users = {}
    /\ audit_trails = {}
    /\ schema = Schema001 \cup Schema002
    /\ schema_migrations = {"002_schema_optimizations"}
    /\ documents_id_seq = Cardinality(documents)
    /\ alerts_id_seq = Cardinality(alerts)
    /\ properties_id_seq = Cardinality(properties)
    /\ sql_result = NoStatement
    /\ ingest = [c \in Clients |-> IdleIngest]
    /\ ingest_response = NoResponse
    /\ matcher = <<>>
    /\ InitWeb

NextBackfill == Migrate003

SpecBackfill == InitBackfill /\ [][NextBackfill]_vars

\* The three migrations, by the identifiers the repository gives them.
MigrationVersions ==
    {"001_single_document_pipeline", "002_schema_optimizations",
     "003_final_optimizations"}

\* Migrations 001, 002 and 003 applied in order to a legacy database.
NextMigAll ==
    \/ Migrate001
    \/ Schema001 \subseteq schema /\ Migrate002
    \/ Schema001 \subseteq schema /\ Migrate003

SpecMigAll == InitMig001 /\ [][NextMigAll]_vars

\* Property types written while the migrations are applied, 003 in either of
\* its variants.
NextMigFull ==
    \/ Migrate001
    \/ Schema001 \subseteq schema /\ Migrate002
    \/ Schema001 \subseteq schema /\ Migrate003
    \/ Schema001 \subseteq schema /\ Migrate003Full
    \/ \E x \in properties, t \in SubmittedPropertyTypes : UpdatePropertyType(x.id, t)

SpecMigFull == InitMig001 /\ [][NextMigFull]_vars

(***************************************************************************)
(* The database migration 001 leaves, before 002 and 003: any rows within  *)
(* the bounds that satisfy the constraints of 001.                         *)
(***************************************************************************)
MaxLegacyRows == 2
LegacyStatuses == {"pending", "reviewing", "false_positive"}

InitMig ==
    /\ companies = {[id |-> c] : c \in CompanyIds}
    /\ municipalities = {[id |-> m, name |-> m] : m \in MunicipalityIds}
    /\ meetings = {[id |-> m, municipality_id |-> m] : m \in MunicipalityIds}
    /\ \E n \in 0..MaxLegacyRows :
         \E f \in [1..n -> [meeting_id : {1}, content_hash : ContentHashes,
                             status : {"processed"}]] :
            documents = Rows(n, f)
    /\ \E n \in 0..MaxLegacyRows :
         \E f \in [1..n -> [company_id : CompanyIds,
                             document_id : {NULL} \cup Ids(documents),
                             review_status : LegacyStatuses,
                             property_matches : {NoMatches},
                             rule_matches : {NoMatches}]] :
            alerts = Rows(n, f)
    /\ \A a1, a2 \in alerts :
          (a1.company_id = a2.company_id /\ a1.document_id = a2.document_id
              /\ a1.document_id # NULL) => a1 = a2
    /\ \E n \in 0..1 :
         \E f \in [1..n -> [company_id : {1}, address : {1}, city : 0..1,
                             property_type : {"Office"},
                             municipality_id : {NULL} \cup MunicipalityIds]] :
            properties = Rows(n, f)
    /\ \E n \in 0..1 :
         \E f \in [1..n -> [company_id : {1}, municipality : 0..1,
                             municipality_id : {NULL}]] :
            ingest_jobs = Rows(n, f)
    /\ company_municipalities = {}
    /\ users = {}
    /\ audit_trails = {}
    /\ schema = Schema001
    /\ schema_migrations = {}
    /\ documents_id_seq = Cardinality(documents)
    /\ alerts_id_seq = Cardinality(alerts)
    /\ properties_id_seq = Cardinality(properties)
    /\ sql_result = NoStatement
    /\ ingest = [c \in Clients |-> IdleIngest]
    /\ ingest_response = NoResponse
    /\ matcher = <<>>
    /\ InitWeb

NextMig ==
    \/ Migrate002
    \/ Migrate003

SpecMig == InitMig /\ [][NextMig]_vars

\* The database after 001 with at most one row per table, in every legacy
\* shape 002 meets: a property with or without municipality whose city names
\* a municipality or none, an alert in any earlier status, an ingest job
\* naming a municipality or none.  Migration 002 is applied, and applied again.
InitAtomic ==
    /\ companies = {[id |-> c] : c \in CompanyIds}
    /\ municipalities = {[id |-> m, name |-> m] : m \in MunicipalityIds}
    /\ meetings = {[id |-> m, municipality_id |-> m] : m \in MunicipalityIds}
    /\ \E n \in 0..1 :
          documents = {[id |-> i, meeting_id |-> 1, content_hash |-> i,
                        status |-> "processed"] : i \in 1..n}
    /\ \E n \in 0..1 :
         \E f \in [1..n -> [company_id : {1},
                             document_id : {NULL} \cup Ids(documents),
                             review_status : LegacyStatuses \cup {"resolved"},
                             property_matches : {NoMatches},
                             rule_matches : {NoMatches}]] :
            alerts = Rows(n, f)
    /\ \E n \in 0..1 :
         \E f \in [1..n -> [company_id : {1}, address : {1}, city : 0..1,
                             property_type : {"Office"},
                             municipality_id : {NULL, 1}]] :
            properties = Rows(n, f)
    /\ \E n \in 0..1 :
         \E f \in [1..n -> [company_id : {1}, municipality : 0..1,
                             municipality_id : {NULL}]] :
            ingest_jobs = Rows(n, f)
    /\ company_municipalities = {}
    /\ users = {}
    /\ audit_trails = {}
    /\ schema = Schema001
    /\ schema_migrations = {}
    /\ documents_id_seq = Cardinality(documents)
    /\ alerts_id_seq = Cardinality(alerts)
    /\ properties_id_seq = Cardinality(properties)
    /\ sql_result = NoStatement
    /\ ingest = [c \in Clients |-> IdleIngest]
    /\ ingest_response = NoResponse
    /\ matcher = <<>>
    /\ InitWeb

NextAtomic == Migrate002

SpecAtomic == InitAtomic /\ [][NextAtomic]_vars

\* C4 as stated: at most one alert row per (company_id, document_id) pair.
C4_OneAlertPerPair ==
    \A a1, a2 \in alerts :
        (a1.company_id = a2.company_id /\ a1.document_id = a2.document_id
            /\ a1.document_id # NULL) => a1.id = a2.id

(***************************************************************************)
(* Claims about tenant isolation and the review status vocabulary.         *)
(***************************************************************************)
C5_ReturnsCallerRows ==
    \A r \in api_response.rows : r.company_id = api_response.caller

C5_ChangesCallerRows ==
    /\ \A r \in (properties \ properties') \cup (properties' \ properties) :
          r.company_id = api_response'.caller
    /\ \A r \in (alerts \ alerts') \cup (alerts' \ alerts) :
          r.company_id = api_response'.caller

\* C5: a list/get/update/delete request authenticated as company A returns
\* only rows whose stored company_id is A and adds, changes or removes only
\* such rows, whatever numeric id it supplies.
C5_TenantIsolation == []C5_ReturnsCallerRows /\ [][C5_ChangesCallerRows]_vars

\* A caller has just tried to change the status of another company's alert.
C5_Witness ==
    /\ api_response.op = "alerts.updateStatus"
    /\ api_response.body.status = "resolved"
    /\ \E a \in alerts :
          /\ a.id = api_response.id
          /\ a.company_id # api_response.caller
          /\ a.review_status = "pending"
    /\ \E r \in properties : r.company_id = api_response.caller

\* The operations that name an entity by id, the table each reads, and the
\* requests a caller can make of each.
IdOps ==
    {"properties.get", "properties.update", "properties.delete",
     "alerts.get", "alerts.updateStatus"}
TableOf(op) ==
    IF op \in {"alerts.get", "alerts.updateStatus"} THEN alerts ELSE properties
PathIds(op) ==
    IF op \in {"alerts.get", "alerts.updateStatus"} THEN AlertPathIds
    ELSE PropertyPathIds
Bodies(op) ==
    CASE op = "properties.update" -> {AddressBody(a) : a \in Addresses}
      [] op = "alerts.updateStatus" -> {StatusBody(st) : st \in SubmittedStatuses}
      [] OTHER -> {NoBody}
OfAnotherTenant(op, co, id) ==
    \E r \in TableOf(op) : r.id = id /\ r.company_id # co
Nonexistent(op, id) == \A r \in TableOf(op) : r.id # id

\* C6: a request for an id of another tenant is answered exactly as the same
\* request for an id that does not exist: "not found", no rows, no change.
C6_NotFoundIndistinguishable ==
    \A op \in IdOps, co \in CompanyIds :
        \A body \in Bodies(op), i \in PathIds(op), j \in PathIds(op) :
            (OfAnotherTenant(op, co, i) /\ Nonexistent(op, j)) =>
                /\ Handle(op, schema, DB, co, i, body).status = "not_found"
                /\ Handle(op, schema, DB, co, i, body)
                      = Handle(op, schema, DB, co, j, body)

\* A caller has just asked for another company's property while some id in
\* reach does not exist.
C6_Witness ==
    /\ api_response.op = "properties.get"
    /\ api_response.status = "not_found"
    /\ OfAnotherTenant("properties.get", api_response.caller, api_response.id)
    /\ \E j \in PropertyPathIds : Nonexistent("properties.get", j)

C10_StoredStatuses == \A a \in alerts : a.review_status \in ReviewStatuses

C10_Rejected ==
    (/\ api_response'.op = "alerts.updateStatus"
     /\ api_response'.body.status \notin ReviewStatuses) =>
        /\ alerts' = alerts
        /\ api_response'.status \in {"validation_error", "not_found"}
        /\ Gate(alerts, api_response'.caller, api_response'.id) # {}
              => api_response'.status = "validation_error"

\* C10: a request to set an alert's review_status to a value outside
\* {pending, reviewed, resolved} is rejected and leaves the alerts unchanged,
\* and every stored alert has a review_status in that set.
C10_ReviewStatusVocabulary == []C10_StoredStatuses /\ [][C10_Rejected]_vars

\* The owner of an alert has just submitted the alert card's "reviewing".
C10_Witness ==
    /\ api_response.op = "alerts.updateStatus"
    /\ api_response.body.status = "reviewing"
    /\ api_response.status = "validation_error"
    /\ Gate(alerts, api_response.caller, api_response.id) # {}

(***************************************************************************)
(* Claims about the identity a request acts under.                         *)
(***************************************************************************)
\* The company_id claim an id_token carries, NULL when it carries none.
ClaimedCompany(id_token) ==
    IF id_token.kind = "jwt"
    THEN OrId(id_token.company_id, id_token.ns_company_id)
    ELSE NULL

\* C7 as stated: the company_id of a signed-in session is the company_id
\* claim of the identity token it was built from, never a value shared by
\* the sessions whose token carries no such claim.
C7_CompanyFromClaim ==
    token # NoToken =>
        session(token).user.company_id = ClaimedCompany(token.idToken)

(***************************************************************************)
(* Claims about the review workflow of the alerts page.                    *)
(***************************************************************************)
\* The status of alert a after its owner presses a button of its card.
AfterButton(a, button) ==
    LET ans == Handle("alerts.updateStatus", schema, DB, a.company_id, a.id,
                      StatusBody(button))
    IN  (CHOOSE x \in ans.db.alerts : x.id = a.id).review_status

C11_CreatedPending ==
    \A a \in alerts' \ alerts :
        (\A x \in alerts : x.id # a.id) => a.review_status = "pending"

C11_ButtonForNext ==
    \A a \in alerts :
        /\ a.review_status = "pending" =>
              \E button \in CardButtons : AfterButton(a, button) = "reviewed"
        /\ a.review_status = "reviewed" =>
              \E button \in CardButtons : AfterButton(a, button) = "resolved"

\* C11 as stated: an alert is created pending, and its owner can move a
\* pending alert to reviewed, and a reviewed one to resolved, with a button
\* of the alert card.
C11_CardMovesForward == []C11_ButtonForNext /\ [][C11_CreatedPending]_vars

(***************************************************************************)
(* Claims about the properties of a company.                               *)
(***************************************************************************)
C12_ReferencesMunicipality ==
    \A x \in properties : x.municipality_id \in Ids(municipalities)

C12_UnsubscribedRejected ==
    (/\ api_response'.op = "properties.create"
     /\ [company_id |-> api_response'.caller,
         municipality_id |-> api_response'.body.municipality_id]
           \notin company_municipalities) =>
        /\ properties' = properties
        /\ api_response'.status = "validation_error"

\* C12: a company without a subscription to municipality M cannot create a
\* property with municipality_id = M (the request is rejected and no row is
\* added), and every property references a stored municipality.
C12_SubscriptionScoping ==
    []C12_ReferencesMunicipality /\ [][C12_UnsubscribedRejected]_vars

\* A company has just been refused a property in a stored municipality that
\* another company subscribes to.
C12_Witness ==
    /\ api_response.op = "properties.create"
    /\ api_response.status = "validation_error"
    /\ api_response.body.municipality_id \in Ids(municipalities)
    /\ [company_id |-> api_response.caller,
        municipality_id |-> api_response.body.municipality_id]
          \notin company_municipalities
    /\ \E sub \in company_municipalities :
          sub.municipality_id = api_response.body.municipality_id

(***************************************************************************)
(* Claims about subscriptions.                                             *)
(***************************************************************************)
C13_HistoryRetained ==
    (\E x \in company_municipalities : x \notin company_municipalities') =>
        /\ alerts' = alerts
        /\ properties' = properties

C13_NoMatchingUnsubscribed ==
    (matcher' # matcher /\ matcher' # <<>>) =>
        \E d \in documents :
            /\ d.id = matcher'[2]
            /\ [company_id |-> matcher'[1], municipality_id |-> MunicipalityOf(d)]
                  \in company_municipalities

\* C13: removing a subscription row deletes and modifies no alert and no
\* property; afterwards the matcher starts no match for the unsubscribed
\* company and municipality.
C13_UnsubscribeFrame ==
    [][C13_HistoryRetained /\ C13_NoMatchingUnsubscribed]_vars

\* A company that holds an alert and a property in a municipality has just
\* dropped its subscription to it.
C13_Witness ==
    /\ api_response.op = "companies.updateMunicipalities"
    /\ api_response.status = "ok"
    /\ api_response.body.municipalities = {}
    /\ \E a \in alerts, x \in properties, d \in documents :
          /\ a.company_id = api_response.caller
          /\ x.company_id = api_response.caller
          /\ d.id = a.document_id
          /\ MunicipalityOf(d) = x.municipality_id
          /\ [company_id |-> a.company_id, municipality_id |-> x.municipality_id]
                \notin company_municipalities

(***************************************************************************)
(* Claims about the parents of a document.                                 *)
(***************************************************************************)
C14_ParentsExist ==
    \A d \in documents :
        \E mt \in meetings :
            /\ mt.id = d.meeting_id
            /\ \E mu \in municipalities : mu.id = mt.municipality_id

C14_MissingMeetingFails ==
    \A c \in Clients :
        (/\ ingest[c].pc = "insert" /\ ingest'[c].pc = "idle"
         /\ \A d \in documents : d.content_hash # ingest[c].content_hash
         /\ \A mt \in meetings : mt.id # ingest[c].meeting_id) =>
            /\ ingest_response'.status = "missing_parent"
            /\ ingest_response'.id = NULL
            /\ documents' = documents

HoldsAlertOn(co, id) ==
    \E a \in alerts : a.company_id = co /\ a.document_id = id

\* C15: a document read (details, content, download, analysis) returns the
\* document if and only if the calling company holds an alert on it; a
\* company without such an alert is answered not found and receives no row.
C15_DocumentGated ==
    [][\A op \in DocumentReads :
          (api_response' # api_response /\ api_response'.op = op) =>
              LET co == api_response'.caller
                  id == api_response'.id
              IN  /\ UNCHANGED tables
                  /\ IF HoldsAlertOn(co, id)
                     THEN /\ api_response'.status = "ok"
                          /\ api_response'.rows = {d \in documents : d.id = id}
                     ELSE /\ api_response'.status = "not_found"
                          /\ api_response'.rows = {}]_vars

\* A company without an alert on a stored document, on which another company
\* holds one, has been refused that document.
C15_Witness ==
    /\ api_response.op \in DocumentReads
    /\ api_response.status = "not_found"
    /\ \E d \in documents : d.id = api_response.id
    /\ ~HoldsAlertOn(api_response.caller, api_response.id)
    /\ \E co \in CompanyIds : HoldsAlertOn(co, api_response.id)

(***************************************************************************)
(* Claims about tenant ownership.                                          *)
(***************************************************************************)
Owned(rows) ==
    \A r \in rows : r.company_id # NULL /\ r.company_id \in Ids(companies)

C16_RowsOwned ==
    Schema001 \subseteq schema =>
        /\ Owned(properties) /\ Owned(alerts) /\ Owned(users)
        /\ Owned(audit_trails) /\ Owned(ingest_jobs)

C16_DeleteRemovesTenant ==
    \A id \in CompanyIds :
        (Schema001 \subseteq schema /\ id \in Ids(companies) /\ id \notin Ids(companies')) =>
            /\ properties' = {r \in properties : r.company_id # id}
            /\ alerts' = {r \in alerts : r.company_id # id}
            /\ users' = {r \in users : r.company_id # id}
            /\ audit_trails' = {r \in audit_trails : r.company_id # id}
            /\ ingest_jobs' = {r \in ingest_jobs : r.company_id # id}
            /\ company_municipalities' =
                  {r \in company_municipalities : r.company_id # id}

\* C16 as stated: once migration 001 is applied every row of properties,
\* alerts, users, audit_trails and ingest_jobs has a non-null company_id of a
\* stored company, and deleting a company removes exactly its rows of those
\* tables and its subscriptions.
C16_TenantOwnership ==
    []C16_RowsOwned /\ [][C16_DeleteRemovesTenant]_vars

(***************************************************************************)
(* Claims about migration tracking.                                        *)
(***************************************************************************)
AllApplied == (Schema001 \cup Schema002 \cup Schema003) \subseteq schema

C17_EveryMigrationRecorded ==
    AllApplied => schema_migrations = MigrationVersions

C17_RecordedOnce ==
    \A v \in schema_migrations :
        /\ v \in schema_migrations'
        /\ Cardinality(schema_migrations') <= Cardinality(schema_migrations) + 1

\* C17 as stated: once 001, 002 and 003 have been applied in order,
\* schema_migrations holds one row for each of the three identifiers, and a
\* step that records a version already present adds no row.
C17_MigrationTracking ==
    []C17_EveryMigrationRecorded /\ [][C17_RecordedOnce]_vars

(***************************************************************************)
(* Claims about property addresses.                                        *)
(***************************************************************************)
C18_AddressOncePerCompany ==
    \A p1, p2 \in properties :
        (p1.company_id = p2.company_id /\ p1.address = p2.address) => p1 = p2

\* The caller already uses the address on a row other than the one written.
AddressTaken(co, id, address) ==
    \E x \in properties : x.company_id = co /\ x.address = address /\ x.id # id

C18_DuplicateRejected ==
    LET r == api_response'
    IN  /\ (r.op = "properties.create" /\ AddressTaken(r.caller, NULL, r.body.address)) =>
              (r.status = "validation_error" /\ properties' = properties)
        /\ (r.op = "properties.update" /\ AddressTaken(r.caller, r.id, r.body.address)) =>
              (r.status # "ok" /\ properties' = properties)

C18_OtherCompanyAccepted ==
    LET r == api_response'
    IN  (/\ r.op = "properties.create"
         /\ properties_id_seq' # properties_id_seq
         /\ ~AddressTaken(r.caller, NULL, r.body.address)) =>
            /\ r.status = "ok"
            /\ \E x \in properties' \ properties :
                  x.company_id = r.caller /\ x.address = r.body.address

\* C18: no two properties of one company share an address; a create or an
\* update to an address the company already uses on another row is rejected
\* and changes nothing, and a create that passes the subscription check with
\* an address only other companies use is stored.
C18_UniqueAddress ==
    /\ []C18_AddressOncePerCompany
    /\ [][C18_DuplicateRejected /\ C18_OtherCompanyAccepted]_vars

\* An update to an address the caller already uses has been rejected while
\* another company holds a property of that same address.
C18_Witness ==
    /\ api_response.op = "properties.update"
    /\ api_response.status = "validation_error"
    /\ AddressTaken(api_response.caller, api_response.id, api_response.body.address)
    /\ \E x \in properties :
          /\ x.company_id # api_response.caller
          /\ x.address = api_response.body.address

(***************************************************************************)
(* Claims about property types.                                            *)
(***************************************************************************)
\* C19 as stated: once version 003_final_optimizations is recorded, a write
\* that gives a property a type outside the allowed set is rejected and the
\* table is unchanged: no step stores a row with such a type.
C19_PropertyTypeChecked ==
    [][("003_final_optimizations" \in schema_migrations) =>
          \A x \in properties' : x.property_type \notin PropertyTypes => x \in properties]_vars

(***************************************************************************)
(* Claims about the order of review statuses.                              *)
(***************************************************************************)
\* The company's request to give its alert a the status to is answered in
\* this step.
StatusRequested(a, to) ==
    /\ api_response' # api_response
    /\ api_response'.op = "alerts.updateStatus"
    /\ api_response'.caller = a.company_id
    /\ api_response'.id = a.id
    /\ api_response'.body.status = to

\* C20: whatever the status of an alert, its company's update to any of
\* pending, reviewed, resolved is accepted and stored (resolved back to
\* pending included); no order of transitions is enforced.
C20_AnyOrderAccepted ==
    [][\A a \in alerts, to \in {"pending", "reviewed", "resolved"} :
          StatusRequested(a, to) =>
              /\ api_response'.status = "ok"
              /\ alerts' = (alerts \ {a}) \cup {[a EXCEPT !.review_status = to]}]_vars

\* An alert that was resolved is pending again, on its company's request.
C20_Witness ==
    /\ api_response.op = "alerts.updateStatus"
    /\ api_response.status = "ok"
    /\ api_response.body.status = "pending"
    /\ \E a \in alerts :
          /\ a.id = api_response.id
          /\ a.company_id = api_response.caller
          /\ a.review_status = "pending"

(***************************************************************************)
(* Claims about migration 002.                                             *)
(***************************************************************************)
\* Migration 002 has run in this step.
Ran002 == sql_result'.statement = "migration_002" /\ sql_result' # sql_result

C21_Collapsed ==
    Ran002 =>
        /\ sql_result'.error # "alerts_review_status_check"
        /\ sql_result'.error = "none" =>
              /\ \A a \in alerts' : a.review_status \in {"pending", "reviewed", "resolved"}
              /\ \A a \in alerts :
                    (a.review_status = "reviewing" /\ a \notin alerts') =>
                        [a EXCEPT !.review_status = "reviewed"] \in alerts'

\* C21 as stated: whatever values of the earlier enum (pending, reviewing,
\* resolved, false_positive) the alerts hold, migration 002 does not fail on
\* the review-status check; when it commits every alert has one of the three
\* values, the 'reviewing' rows having become 'reviewed'.
C21_EnumCollapse == [][C21_Collapsed]_vars

(***************************************************************************)
(* Claims about the match payloads.                                        *)
(***************************************************************************)
Payloads(a) == <<a.property_matches, a.rule_matches>>

Normalized(v) == v.kind \in {"null", "array"}

\* What the claim says of one payload before (v) and after (n) migration 003.
C22_Shape(v, n) ==
    /\ Normalized(n)
    /\ v.kind = "null" => n = v
    /\ v.kind = "array" => n = v
    /\ v.kind = "string" =>
          /\ n.kind = "array"
          /\ Join(n.items, <<",">>) = Quoted(v.chars)
          /\ \A i \in 1..Len(n.items) : \A j \in 1..Len(n.items[i]) : n.items[i][j] # ","

C22_Step ==
    (sql_result'.statement = "migration_003" /\ sql_result'.error = "none") =>
        \A a \in alerts : \E b \in alerts' :
            /\ b.id = a.id
            /\ \A i \in 1..2 : C22_Shape(Payloads(a)[i], Payloads(b)[i])
            /\ (\A i \in 1..2 : Normalized(Payloads(a)[i])) => Payloads(b) = Payloads(a)

\* C22: when migration 003 commits, every payload that was NULL is NULL, every
\* array is kept, every string has become the array of its text split on
\* ',', and payloads that were already normalized are unchanged.
C22_Normalization == [][C22_Step]_vars

\* Migration 003 has committed; one payload is the array of the two fields of
\* a delimited string, the other is NULL.
C22_Witness ==
    /\ sql_result.statement = "migration_003"
    /\ sql_result.error = "none"
    /\ \E a \in alerts :
          /\ a.property_matches = JsonArray(<<<<"\"", "a">>, <<"a", "\"">>>>)
          /\ a.rule_matches = NoMatches

(***************************************************************************)
(* Claims about the document of an alert under migration 003.              *)
(***************************************************************************)
Ran003 == sql_result'.statement = "migration_003" /\ sql_result' # sql_result

C23_Committed ==
    (Ran003 /\ sql_result'.error = "none") =>
        /\ \A b \in alerts' : b.document_id # NULL /\ b.document_id \in Ids(documents')
        /\ \A a \in alerts : a.document_id # NULL =>
              \E b \in alerts' : b.id = a.id /\ b.document_id = a.document_id

C23_Aborted ==
    (Ran003 /\ documents = {} /\ \E a \in alerts : a.document_id = NULL) =>
        /\ sql_result'.error # "none"
        /\ UNCHANGED <<tables, schema, schema_migrations>>

\* C23: when migration 003 commits every alert references a stored document
\* and an alert that had a document keeps it; with a NULL document_id and no
\* document stored the migration aborts and the database is unchanged.
C23_DocumentBackfill == [][C23_Committed /\ C23_Aborted]_vars

\* Migration 003 has committed; one alert kept document 1 and another was
\* given document 2 (no alert references document 2 before the migration).
C23_Witness ==
    /\ sql_result.statement = "migration_003"
    /\ sql_result.error = "none"
    /\ \E a, b \in alerts : a.document_id = 1 /\ b.document_id = 2

\* Migration 003 has aborted on an alert without document in a database
\* without documents.
C23_AbortWitness ==
    /\ sql_result.statement = "migration_003"
    /\ sql_result.error = "alerts_document_id_not_null"
    /\ documents = {}
    /\ \E a \in alerts : a.document_id = NULL

(***************************************************************************)
(* Claims about the transaction of migration 002.                          *)
(***************************************************************************)
\* Every step of 002 that the model carries has taken effect.
Applied002 ==
    /\ Schema002 \subseteq schema'
    /\ "002_schema_optimizations" \in schema_migrations'
    /\ \A p \in properties' : p.municipality_id # NULL
    /\ \A a \in alerts' : a.review_status \in ReviewStatuses
    /\ \A j \in ingest_jobs : \E k \in ingest_jobs' :
          /\ k.id = j.id
          /\ \/ k.municipality_id = NULL /\ \A m \in municipalities : m.name # j.municipality
             \/ \E m \in municipalities : m.id = k.municipality_id /\ m.name = j.municipality

Untouched002 == UNCHANGED <<tables, schema, schema_migrations>>

\* A property without municipality whose city is no municipality's name.
NotBackfillable ==
    \E p \in properties :
        p.municipality_id = NULL /\ \A m \in municipalities : m.name # p.city

\* An alert whose status step 8 neither rewrites nor accepts.
StatusRejected ==
    \E a \in alerts : a.review_status \notin ReviewStatuses \cup {"reviewing"}

C24_Step ==
    Ran002 =>
        /\ sql_result'.error = "none" => Applied002
        /\ sql_result'.error # "none" => Untouched002
        /\ (NotBackfillable \/ StatusRejected) => sql_result'.error # "none"
        /\ "002_schema_optimizations" \in schema_migrations => Untouched002

\* C24: a run of migration 002 either applies every step and records
\* '002_schema_optimizations', or changes no table, no constraint and no
\* version row; a run after a successful one changes nothing.
C24_AllOrNothing == [][C24_Step]_vars

\* A run of 002 has failed on a database that an earlier run migrated.
C24_Witness ==
    /\ sql_result.statement = "migration_002"
    /\ sql_result.error # "none"
    /\ "002_schema_optimizations" \in schema_migrations
    /\ Schema002 \subseteq schema
    /\ properties # {}
    /\ \E a \in alerts : a.review_status = "reviewed"

\* A run of 002 has failed on a property that cannot be back-filled and has
\* left the legacy database as it was.
C24_RollbackWitness ==
    /\ sql_result.statement = "migration_002"
    /\ sql_result.error = "properties_municipality_id_not_null"
    /\ schema = Schema001
    /\ schema_migrations = {}
    /\ \E a \in alerts : a.review_status = "reviewing"

(***************************************************************************)
(* Claims about the subscriptions migration 001 derives.                   *)
(***************************************************************************)
Ran001 ==
    /\ sql_result'.statement = "migration_001"
    /\ sql_result' # sql_result
    /\ sql_result'.error = "none"

\* The municipalities of the meetings of the document with that id, after the
\* step.
MunicipalitiesOfDocument(id) ==
    {mt.municipality_id : mt \in {x \in meetings' :
        \E d \in documents' : d.id = id /\ d.meeting_id = x.id}}

C25_Step ==
    Ran001 =>
        /\ \A a \in alerts' : a.document_id # NULL =>
              /\ MunicipalitiesOfDocument(a.document_id) # {}
              /\ \A m \in MunicipalitiesOfDocument(a.document_id) :
                    \E r \in company_municipalities' :
                        r.company_id = a.company_id /\ r.municipality_id = m
        /\ \A r1, r2 \in company_municipalities' :
              (r1.company_id = r2.company_id /\ r1.municipality_id = r2.municipality_id)
                  => r1 = r2

\* C25: right after migration 001 commits, the company of every alert with a
\* document is subscribed to the municipality of the document's meeting, and
\* no (company_id, municipality_id) pair is stored twice.
C25_SubscriptionsDerived == [][C25_Step]_vars

\* Migration 001 has committed with an alert on a document, and its company
\* holds a subscription.
C25_Witness ==
    /\ sql_result.statement = "migration_001"
    /\ sql_result.error = "none"
    /\ \E a \in alerts : \E d \in documents : \E r \in company_municipalities :
          a.document_id = d.id /\ r.company_id = a.company_id

(***************************************************************************)
(* Claims about deleting a municipality that is still in use.              *)
(***************************************************************************)
\* The meetings, documents and alerts below municipality m, in the state
\* before or after the step.
Below(m, mts, ds, as) ==
    LET ms == {x \in mts : x.municipality_id = m}
        dd == {x \in ds : x.meeting_id \in Ids(ms)}
    IN  <<ms, dd, {x \in as : x.document_id \in Ids(dd)}>>

C26_Step ==
    \A m \in MunicipalityIds :
        (/\ sql_result'.statement = "delete_municipality"
         /\ sql_result'.id = m
         /\ sql_result' # sql_result
         /\ \/ \E p \in properties : p.municipality_id = m
            \/ \E j \in ingest_jobs : j.municipality_id = m)
        => /\ sql_result'.error \in {"properties_municipality_id_fkey",
                                     "ingest_jobs_municipality_id_fkey"}
           /\ m \in Ids(municipalities')
           /\ Below(m, meetings', documents', alerts') = Below(m, meetings, documents, alerts)
           /\ UNCHANGED tables

\* C26: the delete of a municipality that a property or an ingest job
\* references is rejected by that foreign key, and the municipality, its
\* meetings, their documents, the alerts on them and every other row stay.
C26_ReferencedDeleteRejected == [][C26_Step]_vars

\* The delete of a municipality has been rejected; the municipality still
\* has a meeting with a document that carries an alert.
C26_Witness ==
    /\ sql_result.statement = "delete_municipality"
    /\ sql_result.error \in {"properties_municipality_id_fkey",
                             "ingest_jobs_municipality_id_fkey"}
    /\ sql_result.id \in Ids(municipalities)
    /\ Below(sql_result.id, meetings, documents, alerts)[3] # {}

(***************************************************************************)
(* Claims about the role of a session.                                     *)
(***************************************************************************)
\* The role claim an id_token carries under either name, "" when it carries
\* none or does not decode.
ClaimedRoles(id_token) ==
    IF id_token.kind = "jwt" THEN {id_token.role, id_token.ns_role} \ {""} ELSE {}

C27_AdminFromClaim ==
    token # NoToken =>
        /\ session(token).user.role = "admin" => "admin" \in ClaimedRoles(token.idToken)
        /\ ClaimedRoles(token.idToken) = {} => session(token).user.role = "analyst"

C27_RefreshKeeps ==
    (token # NoToken /\ token' # NoToken /\ account' = NoAccount) =>
        /\ token'.accessToken = token.accessToken
        /\ token'.company_id = token.company_id
        /\ token'.role = token.role

\* C27: the role of a session is 'admin' only if the id token of the sign-in
\* carries 'admin' under one of the two claim names; without a role claim or
\* without a decodable token it is 'analyst'; a jwt callback without account
\* keeps accessToken, company_id and role.
C27_SessionRole == []C27_AdminFromClaim /\ [][C27_RefreshKeeps]_vars

\* An admin session after a jwt callback without account.
C27_Witness ==
    /\ account = NoAccount
    /\ token # NoToken
    /\ token.accessToken # NULL
    /\ session(token).user.role = "admin"

(***************************************************************************)
(* Claims about the statuses the alerts page knows.                        *)
(***************************************************************************)
\* Would alerts_review_status_check accept a row in that status?
StatusPermitted(status) ==
    alerts_review_status_check([alerts |-> {[review_status |-> status]}])

C28_SubmittedPermitted ==
    /\ \A status \in CardButtons \cup FilterStatuses : StatusPermitted(status)
    /\ \A a \in alerts : a.review_status \in DOMAIN statusIcons \cap DOMAIN statusColors
    /\ \A status \in ReviewStatuses :
          status \in DOMAIN statusIcons \cap DOMAIN statusColors

C28_ButtonAccepted ==
    (/\ api_response' # api_response
     /\ api_response'.op = "alerts.updateStatus"
     /\ api_response'.body.status \in CardButtons)
        => api_response'.status # "validation_error"

\* C28 as stated: every status a card button submits or the filter selects is
\* one alerts_review_status_check accepts, so no button press is rejected by
\* it, and every status the constraint permits has an icon and a colour.
C28_VocabularyMatches == []C28_SubmittedPermitted /\ [][C28_ButtonAccepted]_vars

(***************************************************************************)
(* Claims about who can write properties from the properties page.         *)
(***************************************************************************)
Writes == {"properties.create", "properties.update", "properties.delete"}

Sent(op) == page'.mutation # page.mutation /\ page'.mutation.op = op

\* C29 as stated: no create, update or delete request is sent under a
\* session whose role is not 'admin'.
C29_OnlyAdminsWrite ==
    [][\A op \in Writes : Sent(op) => page'.mutation.role = "admin"]_vars

C29_Step ==
    /\ (page'.showAddForm /\ ~page.showAddForm) => isAdmin
    /\ \A p \in page'.isEditing \ page.isEditing : isAdmin
    /\ Sent("properties.create") => page.showAddForm
    /\ Sent("properties.update") => page'.mutation.id \in page.isEditing
    /\ Sent("properties.delete") =>
          /\ page'.mutation.role = "admin"
          /\ page'.confirmed
    /\ (page'.confirmed # page.confirmed /\ ~page'.confirmed) =>
          page'.mutation = page.mutation

\* C29 amended: the add form is opened and a card enters edit mode only under
\* an admin session, a create or update request is sent only from a form so
\* opened, and a delete request is sent only under an admin session and only
\* after the confirmation dialog is accepted.
C29_AdminControls == [][C29_Step]_vars

\* A delete request has been sent by an admin who accepted the dialog, while
\* the add form and an edit form are open.
C29_Witness ==
    /\ page.mutation.op = "properties.delete"
    /\ page.mutation.role = "admin"
    /\ page.confirmed
    /\ page.showAddForm
    /\ page.isEditing # {}

\* A create request has been sent from the add form under a session that is
\* not admin.
C29_StaleForm ==
    /\ page.mutation.op = "properties.create"
    /\ page.mutation.role # "admin"

(***************************************************************************)
(* Claims about the aliases a PropertyForm submits.                        *)
(***************************************************************************)
\* The step is a submit of the mounted form.
Submitted == page.property.kind # "none" /\ page'.property.kind = "none"

Padded(alias) ==
    alias # <<>> /\ (Head(alias) \in Whitespace \/ alias[Len(alias)] \in Whitespace)

HasComma(alias) == \E i \in 1..Len(alias) : alias[i] = ","

\* The form of a stored property, not edited since it was opened.
Unedited ==
    /\ page.property.kind = "existing"
    /\ page.formData = InitialFormData(page.property)

C30_Clean ==
    Submitted =>
        \A i \in 1..Len(page'.mutation.aliases) :
            page'.mutation.aliases[i] # <<>> /\ ~Padded(page'.mutation.aliases[i])

\* C30 as stated: the submitted aliases are never empty or padded, and the
\* unedited form of a property whose aliases hold no comma and no leading or
\* trailing whitespace submits the same list.
C30_Original ==
    [][/\ C30_Clean
       /\ (/\ Submitted
           /\ Unedited
           /\ \A i \in 1..Len(page.property.aliases) :
                 ~HasComma(page.property.aliases[i]) /\ ~Padded(page.property.aliases[i]))
          => page'.mutation.aliases = page.property.aliases]_vars

\* C30 amended: the submitted aliases are never empty or padded, and the
\* unedited form of a property whose aliases are non-empty and hold no comma
\* and no leading or trailing whitespace submits the same list.
C30_RoundTrip ==
    [][/\ C30_Clean
       /\ (/\ Submitted
           /\ Unedited
           /\ \A i \in 1..Len(page.property.aliases) :
                 /\ page.property.aliases[i] # <<>>
                 /\ ~HasComma(page.property.aliases[i])
                 /\ ~Padded(page.property.aliases[i]))
          => page'.mutation.aliases = page.property.aliases]_vars

\* The form of a property with two aliases has been submitted and unmounted,
\* and the request carries the two aliases.
C30_Witness ==
    /\ page.property.kind = "none"
    /\ page.mutation.op = "properties.update"
    /\ page.mutation.aliases = <<<<"a">>, <<"a", " ", "a">>>>

====
